---------------------------- MODULE Spec2Model ----------------------------
(***************************************************************************)
(* A model of the microbots task orchestration engine:                     *)
(*   MicroBot.run              (src/src/microbots/MicroBot.py)             *)
(*   LLMInterface / OllamaLocal (src/src/microbots/llm/*.py)               *)
(* The gateway run() talks to is an LLMInterface with the fields that      *)
(* LLMInterface.__init__ sets (messages, deferred_tasks, llm_reward,       *)
(* retries); its ask() is the request and validation loop of               *)
(* OllamaLocal.ask.                                                        *)
(*                                                                         *)
(* Text is modelled as a sequence of symbols.  A symbol is a TLA+ string:  *)
(* either one character ("l", " ", "-") or one fixed chunk of text that    *)
(* the program only ever handles as a whole (a marker such as              *)
(* "__context__", a keyword such as "do_later", a literal message).        *)
(***************************************************************************)
EXTENDS Integers, Sequences, FiniteSets, TLC

(***************************************************************************)
(* Bounds of the model                                                     *)
(***************************************************************************)
\* the largest max_iterations argument a caller passes to run()
MaxIterArg == 4
\* the wall clock runs from 0 to MaxClock; run() is called with a
\* timeout_in_seconds of MaxClock - 1, which one late answer exceeds
MaxClock == 2
\* how many times the modelled LLM defers a task
MaxDeferred == 2
\* how many responses of the backend are rejected by the validator
MaxRejected == 3
\* how many execute() calls time out
MaxTimeouts == 3
\* how many times stop() is called
MaxStops == 3
\* how many containers one environment creates
MaxLaunched == 3
\* how many frames of run() the interpreter's stack holds above the first
MaxRecursion == 3
\* how many further run() calls are made on a MicroBot whose run() returned
MaxRuns == 1
\* how many turns each of two pairs takes
MaxPairTurns == 4

(***************************************************************************)
(* Characters and strings                                                  *)
(***************************************************************************)
Lower == {"a","b","c","d","e","f","g","h","i","j","k","l","m",
          "n","o","p","q","r","s","t","u","v","w","x","y","z"}
Upper == {"A","B","C","D","E","F","G","H","I","J","K","L","M",
          "N","O","P","Q","R","S","T","U","V","W","X","Y","Z"}
Digits == {"0","1","2","3","4","5","6","7","8","9"}
\* the keyword chunks consist of word characters only
Keywords == {"summarize_context", "do_later"}
\* str.strip() / \s / shlex.whitespace
Whitespace == {" ", "\n", "\t", "\r"}

IsAlpha(c) == c \in Lower \cup Upper
IsWordChar(c) == c \in Lower \cup Upper \cup Digits \cup {"_"} \cup Keywords
IsSpace(c) == c \in Whitespace

\* s[a..b] as a sequence (empty when a > b)
Slice(s, a, b) == IF a > b THEN <<>> ELSE SubSeq(s, a, b)

\* str.startswith
StartsWith(s, p) == Len(s) >= Len(p) /\ SubSeq(s, 1, Len(p)) = p

\* sym in s, for a one-symbol needle
Contains(s, sym) == \E i \in 1..Len(s) : s[i] = sym

\* index of the first occurrence of sym in s, 0 when there is none
IndexOf(s, sym) ==
  IF Contains(s, sym) THEN CHOOSE i \in 1..Len(s) :
                             s[i] = sym /\ \A j \in 1..(i-1) : s[j] # sym
  ELSE 0

\* s.split(sym)[0]
SplitHead(s, sym) == IF Contains(s, sym) THEN Slice(s, 1, IndexOf(s, sym) - 1) ELSE s

\* sym.join(s.split(sym)[1:]) : what follows the first occurrence
AfterFirst(s, sym) == IF Contains(s, sym) THEN Slice(s, IndexOf(s, sym) + 1, Len(s)) ELSE <<>>

\* s.split(sym)[1] : between the first and the second occurrence (or the end)
SplitSecond(s, sym) == SplitHead(AfterFirst(s, sym), sym)

RECURSIVE RStrip(_)
RStrip(s) == IF s # <<>> /\ IsSpace(s[Len(s)]) THEN RStrip(SubSeq(s, 1, Len(s) - 1)) ELSE s

RECURSIVE LStrip(_)
LStrip(s) == IF s # <<>> /\ IsSpace(s[1]) THEN LStrip(Tail(s)) ELSE s

\* str.strip()
Strip(s) == LStrip(RStrip(s))

(***************************************************************************)
(* shlex.split(command): POSIX mode, whitespace_split, no comment          *)
(* characters.  The scanner reads one symbol at a time; st is shlex's      *)
(* state (" " -> "ws", "a", the two quote states, the escape state), esc   *)
(* is its escapedstate, quoted says whether the current token met a quote. *)
(* The result is [ok |-> FALSE] where shlex raises ValueError.             *)
(***************************************************************************)
QuoteChar(st) == IF st = "dq" THEN "\"" ELSE "'"

RECURSIVE ShlexScan(_, _, _, _, _, _, _)
ShlexScan(s, i, st, esc, tok, quoted, out) ==
  IF i > Len(s)
  THEN CASE st = "ws" -> [ok |-> TRUE, parts |-> out]
         [] st = "a"  -> [ok |-> TRUE,
                          parts |-> IF tok # <<>> \/ quoted THEN Append(out, tok) ELSE out]
         [] OTHER     -> [ok |-> FALSE, parts |-> <<>>]
  ELSE LET c == s[i] IN
    CASE st = "ws" ->
           IF IsSpace(c) THEN ShlexScan(s, i + 1, "ws", esc, tok, quoted, out)
           ELSE IF c = "\\" THEN ShlexScan(s, i + 1, "esc", "a", tok, quoted, out)
           ELSE IF c = "\"" THEN ShlexScan(s, i + 1, "dq", esc, tok, quoted, out)
           ELSE IF c = "'" THEN ShlexScan(s, i + 1, "sq", esc, tok, quoted, out)
           ELSE ShlexScan(s, i + 1, "a", esc, <<c>>, quoted, out)
      [] st = "a" ->
           IF IsSpace(c)
           THEN IF tok # <<>> \/ quoted
                THEN ShlexScan(s, i + 1, "ws", " ", <<>>, FALSE, Append(out, tok))
                ELSE ShlexScan(s, i + 1, "ws", esc, tok, quoted, out)
           ELSE IF c = "\"" THEN ShlexScan(s, i + 1, "dq", esc, tok, quoted, out)
           ELSE IF c = "'" THEN ShlexScan(s, i + 1, "sq", esc, tok, quoted, out)
           ELSE IF c = "\\" THEN ShlexScan(s, i + 1, "esc", "a", tok, quoted, out)
           ELSE ShlexScan(s, i + 1, "a", esc, Append(tok, c), quoted, out)
      [] st \in {"dq", "sq"} ->
           IF c = QuoteChar(st) THEN ShlexScan(s, i + 1, "a", esc, tok, TRUE, out)
           ELSE IF c = "\\" /\ st = "dq" THEN ShlexScan(s, i + 1, "esc", st, tok, TRUE, out)
           ELSE ShlexScan(s, i + 1, st, esc, Append(tok, c), TRUE, out)
      [] OTHER -> \* st = "esc"
           LET kept == IF esc \in {"dq", "sq"} /\ c # "\\" /\ c # QuoteChar(esc)
                       THEN Append(tok, "\\") ELSE tok
           IN ShlexScan(s, i + 1, esc, esc, Append(kept, c), quoted, out)

ShlexSplit(s) == ShlexScan(s, 1, "ws", " ", <<>>, FALSE, <<>>)

(***************************************************************************)
(* int(text) for the numerals of the model: surrounding whitespace, an     *)
(* optional sign, then decimal digits.  [ok |-> FALSE] is ValueError.      *)
(***************************************************************************)
DigitVal(c) == CASE c = "0" -> 0 [] c = "1" -> 1 [] c = "2" -> 2 [] c = "3" -> 3
                 [] c = "4" -> 4 [] c = "5" -> 5 [] c = "6" -> 6 [] c = "7" -> 7
                 [] c = "8" -> 8 [] OTHER -> 9

RECURSIVE DigitsVal(_)
DigitsVal(d) == IF d = <<>> THEN 0
                ELSE 10 * DigitsVal(SubSeq(d, 1, Len(d) - 1)) + DigitVal(d[Len(d)])

PyInt(text) ==
  LET t == Strip(text)
      signed == t # <<>> /\ t[1] \in {"+", "-"}
      d == IF signed THEN Tail(t) ELSE t
  IN IF d # <<>> /\ \A i \in 1..Len(d) : d[i] \in Digits
     THEN [ok |-> TRUE, val |-> IF signed /\ t[1] = "-" THEN 0 - DigitsVal(d) ELSE DigitsVal(d)]
     ELSE [ok |-> FALSE, val |-> 0]

(***************************************************************************)
(* MicroBot._parse_summarize_context_command / _parse_do_later_command     *)
(* [ok |-> FALSE] is the None the code returns.                            *)
(***************************************************************************)
NoSummarizeArgs == [ok |-> FALSE, last_n_messages |-> 0, summary |-> <<>>]

ParseSummarizeContext(command) ==
  LET sp == ShlexSplit(command)
      parts == sp.parts
  IN IF ~sp.ok THEN NoSummarizeArgs
     ELSE IF Len(parts) < 2 \/ Len(parts) > 3 THEN NoSummarizeArgs
     ELSE IF parts[1] # <<"summarize_context">> THEN NoSummarizeArgs
     ELSE IF ~PyInt(parts[2]).ok THEN NoSummarizeArgs
     ELSE [ok |-> TRUE, last_n_messages |-> PyInt(parts[2]).val,
           summary |-> IF Len(parts) > 2 THEN parts[3] ELSE <<>>]

NoDoLaterArgs == [ok |-> FALSE, current_task |-> <<>>, deferred_task |-> <<>>]

ParseDoLater(command) ==
  LET sp == ShlexSplit(command)
      parts == sp.parts
  IN IF ~sp.ok THEN NoDoLaterArgs
     ELSE IF Len(parts) # 3 THEN NoDoLaterArgs
     ELSE IF parts[1] # <<"do_later">> THEN NoDoLaterArgs
     ELSE IF parts[2] = <<>> \/ Strip(parts[2]) = <<>> THEN NoDoLaterArgs
     ELSE IF parts[3] = <<>> \/ Strip(parts[3]) = <<>> THEN NoDoLaterArgs
     ELSE [ok |-> TRUE, current_task |-> parts[2], deferred_task |-> parts[3]]

(***************************************************************************)
(* MicroBot._get_dangerous_command_explanation: the five regular           *)
(* expressions of dangerous_checks, searched with re.IGNORECASE in the     *)
(* stripped command.  Positions run from 1 to Len(s) + 1.                  *)
(***************************************************************************)
WordAt(s, i) == i >= 1 /\ i <= Len(s) /\ IsWordChar(s[i])

\* \b between s[i-1] and s[i]
WordBoundary(s, i) == WordAt(s, i - 1) # WordAt(s, i)

\* re.IGNORECASE comparison of one symbol with a lower-case letter
SameLetter(c, l) ==
  \/ c = l
  \/ \E k \in 1..26 :
       /\ <<"a","b","c","d","e","f","g","h","i","j","k","l","m",
            "n","o","p","q","r","s","t","u","v","w","x","y","z">>[k] = l
       /\ <<"A","B","C","D","E","F","G","H","I","J","K","L","M",
            "N","O","P","Q","R","S","T","U","V","W","X","Y","Z">>[k] = c

\* the literal word w (lower-case letters) occupies s[i .. i+Len(w)-1]
LiteralAt(s, i, w) ==
  /\ i >= 1
  /\ i + Len(w) - 1 <= Len(s)
  /\ \A k \in 1..Len(w) : SameLetter(s[i + k - 1], w[k])

AllAlpha(s, a, b) == \A k \in a..b : IsAlpha(s[k])
AllSpace(s, a, b) == \A k \in a..b : IsSpace(s[k])
NotDash(c) == c # "-"
AllNotDash(s, a, b) == \A k \in a..b : NotDash(s[k])

\* -[a-z]*[rR](?:[a-z]*\b|\s|$) starting at position p
RecursiveFlagAt(s, p) ==
  /\ p <= Len(s)
  /\ s[p] = "-"
  /\ \E q \in (p + 1)..Len(s) :
       /\ AllAlpha(s, p + 1, q - 1)
       /\ SameLetter(s[q], "r")
       /\ \/ \E u \in (q + 1)..(Len(s) + 1) :
               AllAlpha(s, q + 1, u - 1) /\ WordBoundary(s, u)
          \/ (q + 1 <= Len(s) /\ IsSpace(s[q + 1]))
          \/ q + 1 = Len(s) + 1

\* \b<cmd>\s+(?:[^-]*\s+)?-[a-z]*[rR](?:[a-z]*\b|\s|$)
RecursiveFlagPattern(s, cmd) ==
  \E i \in 1..Len(s) :
    /\ WordBoundary(s, i)
    /\ LiteralAt(s, i, cmd)
    /\ \E j \in (i + Len(cmd) + 1)..(Len(s) + 1) :
         /\ AllSpace(s, i + Len(cmd), j - 1)
         /\ \/ RecursiveFlagAt(s, j)
            \/ \E k \in j..Len(s) : \E m \in (k + 1)..Len(s) :
                 /\ AllNotDash(s, j, k - 1)
                 /\ AllSpace(s, k, m - 1)
                 /\ RecursiveFlagAt(s, m)

\* \btree\b
TreePattern(s) ==
  \E i \in 1..Len(s) :
    /\ WordBoundary(s, i)
    /\ LiteralAt(s, i, <<"t","r","e","e">>)
    /\ WordBoundary(s, i + 4)

\* \brm\s+--recursive\b
RmLongPattern(s) ==
  \E i \in 1..Len(s) :
    /\ WordBoundary(s, i)
    /\ LiteralAt(s, i, <<"r","m">>)
    /\ \E j \in (i + 3)..Len(s) :
         /\ AllSpace(s, i + 2, j - 1)
         /\ j + 1 <= Len(s) /\ s[j] = "-" /\ s[j + 1] = "-"
         /\ LiteralAt(s, j + 2, <<"r","e","c","u","r","s","i","v","e">>)
         /\ WordBoundary(s, j + 11)

\* \bfind\b(?!.*-maxdepth) : '.' does not match a newline
FindPattern(s) ==
  \E i \in 1..Len(s) :
    /\ WordBoundary(s, i)
    /\ LiteralAt(s, i, <<"f","i","n","d">>)
    /\ WordBoundary(s, i + 4)
    /\ ~ \E j \in (i + 4)..Len(s) :
           /\ \A k \in (i + 4)..(j - 1) : s[k] # "\n"
           /\ s[j] = "-"
           /\ LiteralAt(s, j + 1, <<"m","a","x","d","e","p","t","h">>)

\* f"REASON: {reason}\nALTERNATIVE: {alternative}"
Explanation(reason, alternative) ==
  <<"REASON: ", reason, "\n", "ALTERNATIVE: ", alternative>>
ExplainInvalid ==
  Explanation("Empty or invalid command provided", "Provide a valid shell command")
ExplainBlank ==
  Explanation("Empty or whitespace-only command provided", "Provide a valid shell command")
ExplainLs ==
  Explanation("Recursive ls commands (ls -R) can generate massive output ...",
              "Use targeted paths like \"ls drivers/block/\" ...")
ExplainTree ==
  Explanation("Tree command recursively lists entire directory structures ...",
              "Use \"ls -la <specific-directory>\" ...")
ExplainRm ==
  Explanation("Recursive rm commands (rm -r/-rf) can delete entire directory trees ...",
              "Delete specific files individually ...")
ExplainRmLong ==
  Explanation("Recursive rm commands can delete entire directory trees ...",
              "Delete specific files individually ...")
ExplainFind ==
  Explanation("Find command without -maxdepth can recursively search entire filesystems ...",
              "Use \"find <path> -name \"*.ext\" -maxdepth 2\" ...")

\* None (the command is safe) is the empty sequence
GetDangerousCommandExplanation(command) ==
  LET stripped_command == Strip(command) IN
  IF command = <<>> THEN ExplainInvalid
  ELSE IF stripped_command = <<>> THEN ExplainBlank
  ELSE IF RecursiveFlagPattern(stripped_command, <<"l","s">>) THEN ExplainLs
  ELSE IF TreePattern(stripped_command) THEN ExplainTree
  ELSE IF RecursiveFlagPattern(stripped_command, <<"r","m">>) THEN ExplainRm
  ELSE IF RmLongPattern(stripped_command) THEN ExplainRmLong
  ELSE IF FindPattern(stripped_command) THEN ExplainFind
  ELSE <<>>

\* MicroBot._is_safe_command
IsSafeCommand(command) ==
  LET explanation == GetDangerousCommandExplanation(command)
  IN [is_safe |-> explanation = <<>>, explanation |-> explanation]

(***************************************************************************)
(* JSON as the validator sees it.  A backend response is either text that  *)
(* json.loads rejects, or a JSON object: the set of keys it has and the    *)
(* values under them.  task_done is kept as its JSON literal ("true",      *)
(* "false", "0", "1", "null", "\"yes\""); thoughts and command are         *)
(* [t, s]: t is "str", "null" or "num", s the text of a string.            *)
(***************************************************************************)
StrVal(s) == [t |-> "str", s |-> s]
NullVal == [t |-> "null", s |-> <<>>]
NumVal == [t |-> "num", s |-> <<>>]

NotJson == [json |-> FALSE, keys |-> {}, task_done |-> "null",
            thoughts |-> NullVal, command |-> NullVal]
JsonObject(keys, task_done, thoughts, command) ==
  [json |-> TRUE, keys |-> keys, task_done |-> task_done,
   thoughts |-> thoughts, command |-> command]

\* dict.get(key): None for a key the object lacks
GetTaskDone(r) == IF "task_done" \in r.keys THEN r.task_done ELSE "null"
GetCommand(r) == IF "command" \in r.keys THEN r.command ELSE NullVal
GetThoughts(r) == IF "thoughts" \in r.keys THEN r.thoughts ELSE NullVal

\* x in [True, False]: list membership compares with ==, and 1 == True, 0 == False
InTrueFalse(x) == x \in {"true", "false", "1", "0"}
\* x is False / x is True: identity with the singletons
IsFalse(x) == x = "false"
IsTrue(x) == x = "true"

\* llm_output_format_str, one chunk
FormatStr == "{ \"task_done\": <bool>, \"thoughts\": <str>, \"command\": <str> }"

ErrNotJson == <<"LLM_RES_ERROR: ", "Please respond in the correct JSON format.\n", FormatStr>>
ErrTaskDone == <<"LLM_RES_ERROR: ", "Please ensure 'task_done' is a boolean (true/false).\n", FormatStr>>
ErrCommand == <<"LLM_RES_ERROR: ", "Please ensure 'command' is a non-empty string.\n", FormatStr>>
ErrDoneCommand == <<"LLM_RES_ERROR: ", "When 'task_done' is true, 'command' should be an empty string. ...\n", FormatStr>>
ErrMissing == <<"LLM_RES_ERROR: ", "LLM response is missing required fields. Please respond in the correct JSON format.\n", FormatStr>>

RequiredKeys == {"task_done", "thoughts", "command"}

(***************************************************************************)
(* LLMInterface._validate_llm_response, after the retry-ceiling test at    *)
(* its head: the verdict on one backend response.                          *)
(*   kind "valid"  : (True, LLMAskResponse)   -> resp                      *)
(*   kind "retry"  : (False, None), retries += 1, msg appended             *)
(*   kind "raise"  : an exception other than the retry ceiling             *)
(*                   (None.strip / int.strip: AttributeError)              *)
(***************************************************************************)
NoResponse == [task_done |-> "null", thoughts |-> NullVal, command |-> NullVal]
Retry(msg) == [kind |-> "retry", msg |-> msg, resp |-> NoResponse]

ValidateLlmResponse(r) ==
  IF ~r.json THEN Retry(ErrNotJson)
  ELSE IF ~(RequiredKeys \subseteq r.keys) THEN Retry(ErrMissing)
  ELSE IF ~InTrueFalse(GetTaskDone(r)) THEN Retry(ErrTaskDone)
  ELSE IF /\ IsFalse(GetTaskDone(r))
          /\ \/ GetCommand(r).t = "null"
             \/ GetCommand(r).t # "str"
             \/ Strip(GetCommand(r).s) = <<>>
       THEN Retry(ErrCommand)
  ELSE IF IsTrue(GetTaskDone(r)) /\ GetCommand(r).t = "num"
       THEN [kind |-> "raise", msg |-> <<>>, resp |-> NoResponse]
  ELSE IF /\ IsTrue(GetTaskDone(r))
          /\ GetCommand(r).t # "null"
          /\ Strip(GetCommand(r).s) # <<>>
       THEN Retry(ErrDoneCommand)
  ELSE [kind |-> "valid", msg |-> <<>>,
        resp |-> [task_done |-> r.task_done, thoughts |-> GetThoughts(r),
                  command |-> r.command]]

(***************************************************************************)
(* json.dumps(asdict(askResponse)): the assistant turn kept in messages    *)
(***************************************************************************)
RECURSIVE JsonEscape(_)
JsonEscape(s) ==
  IF s = <<>> THEN <<>>
  ELSE (CASE s[1] = "\"" -> <<"\\", "\"">>
          [] s[1] = "\\" -> <<"\\", "\\">>
          [] s[1] = "\n" -> <<"\\", "n">>
          [] s[1] = "\t" -> <<"\\", "t">>
          [] s[1] = "\r" -> <<"\\", "r">>
          [] OTHER -> <<s[1]>>) \o JsonEscape(Tail(s))

JsonValue(v) == CASE v.t = "str" -> <<"\"">> \o JsonEscape(v.s) \o <<"\"">>
                  [] v.t = "null" -> <<"null">>
                  [] OTHER -> <<"0">>

JsonDumps(resp) ==
  <<"{\"task_done\": ", resp.task_done, ", \"thoughts\": ">> \o JsonValue(resp.thoughts)
    \o <<", \"command\": ">> \o JsonValue(resp.command) \o <<"}">>

Message(role, content) == [role |-> role, content |-> content]

(***************************************************************************)
(* Text helpers of the context manager                                     *)
(***************************************************************************)
DigitSym(d) == <<"0","1","2","3","4","5","6","7","8","9">>[d + 1]

\* str(n) for n >= 0
RECURSIVE IntToStr(_)
IntToStr(n) == IF n < 10 THEN <<DigitSym(n)>>
               ELSE IntToStr(n \div 10) \o <<DigitSym(n % 10)>>

\* s.splitlines() for text whose only line break is "\n"
RECURSIVE SplitLines(_)
SplitLines(s) ==
  IF s = <<>> THEN <<>>
  ELSE IF Contains(s, "\n")
       THEN <<SplitHead(s, "\n")>> \o SplitLines(AfterFirst(s, "\n"))
       ELSE <<s>>

\* "\n".join(lines)
RECURSIVE JoinLines(_)
JoinLines(lines) ==
  IF lines = <<>> THEN <<>>
  ELSE IF Len(lines) = 1 THEN lines[1]
  ELSE lines[1] \o <<"\n">> \o JoinLines(Tail(lines))

\* the text "# $$REWARD$$:" is the two symbols "# " and "$$REWARD$$:"
HashReward == <<"# ", "$$REWARD$$:">>
ContainsSeq(s, p) == \E i \in 1..(Len(s) - Len(p) + 1) : SubSeq(s, i, i + Len(p) - 1) = p

\* "\n".join([line if not line.startswith(prefix) else f"{prefix} {reward}" ...])
ReplaceRewardLines(s, prefix, reward) ==
  LET lines == SplitLines(s)
  IN JoinLines([i \in 1..Len(lines) |->
                  IF StartsWith(lines[i], prefix)
                  THEN prefix \o <<" ">> \o IntToStr(reward)
                  ELSE lines[i]])

\* the context region of a system prompt:
\*   prompt.split("__end_context__")[0].split("__context__")[1].strip()
ContextRegion(prompt) ==
  IF Contains(prompt, "__context__")
  THEN Strip(SplitSecond(SplitHead(prompt, "__end_context__"), "__context__"))
  ELSE <<>>

ContinuationPlaceholder == <<"Context is updated as per your request.\nIf you think the current task is complete, set task_done to true. Deferred tasks (if any) will be given to you next.">>

(***************************************************************************)
(* LLMInterface.update_context(last_n_messages, summary), which            *)
(* MicroBot.run calls under the name summarize_context.  It rewrites       *)
(* messages only; self.system_prompt is not assigned.                      *)
\* an update_context that keeps last_n_messages messages, not exchanges
UpdateContextKeepN(messages, system_prompt, last_n_messages, summary) ==
  LET msg0 == IF messages[1].role = "system" THEN messages[1].content ELSE system_prompt
      popped == SubSeq(messages, 1, Len(messages) - 1)
      recent_messages ==
        IF last_n_messages = 0 THEN <<>>
        ELSE IF Len(popped) > last_n_messages * 2
             THEN \* popped[-(last_n_messages*2):]
                  IF last_n_messages > 0
                  THEN Slice(popped, Len(popped) - last_n_messages + 1, Len(popped))
                  ELSE Slice(popped, (0 - last_n_messages) * 2 + 1, Len(popped))
             ELSE Slice(popped, 2, Len(popped))
      head == IF Contains(msg0, "__context__") THEN SplitHead(msg0, "__context__") ELSE msg0
      new_system_prompt ==
        head \o <<"\n", "\n", "__context__", "\n">> \o summary \o <<"\n", "__end_context__">>
  IN IF recent_messages # <<>>
     THEN [messages |-> <<Message("system", new_system_prompt)>>
                          \o SubSeq(recent_messages, 1, Len(recent_messages) - 1),
           ret |-> recent_messages[Len(recent_messages)].content]
     ELSE [messages |-> <<Message("system", new_system_prompt)>>,
           ret |-> ContinuationPlaceholder]

\* an update_context for which 0 turns to keep means no limit
UpdateContextZeroKeepsAll(messages, system_prompt, last_n_messages, summary) ==
  LET msg0 == IF messages[1].role = "system" THEN messages[1].content ELSE system_prompt
      popped == SubSeq(messages, 1, Len(messages) - 1)
      recent_messages ==
        IF last_n_messages = 0 THEN Slice(popped, 2, Len(popped))
        ELSE IF Len(popped) > last_n_messages * 2
             THEN \* popped[-(last_n_messages*2):]
                  IF last_n_messages > 0
                  THEN Slice(popped, Len(popped) - last_n_messages * 2 + 1, Len(popped))
                  ELSE Slice(popped, (0 - last_n_messages) * 2 + 1, Len(popped))
             ELSE Slice(popped, 2, Len(popped))
      head == IF Contains(msg0, "__context__") THEN SplitHead(msg0, "__context__") ELSE msg0
      new_system_prompt ==
        head \o <<"\n", "\n", "__context__", "\n">> \o summary \o <<"\n", "__end_context__">>
  IN IF recent_messages # <<>>
     THEN [messages |-> <<Message("system", new_system_prompt)>>
                          \o SubSeq(recent_messages, 1, Len(recent_messages) - 1),
           ret |-> recent_messages[Len(recent_messages)].content]
     ELSE [messages |-> <<Message("system", new_system_prompt)>>,
           ret |-> ContinuationPlaceholder]

\* an update_context that adds its region after the one that is there
UpdateContextAppending(messages, system_prompt, last_n_messages, summary) ==
  LET msg0 == IF messages[1].role = "system" THEN messages[1].content ELSE system_prompt
      popped == SubSeq(messages, 1, Len(messages) - 1)
      recent_messages ==
        IF last_n_messages = 0 THEN <<>>
        ELSE IF Len(popped) > last_n_messages * 2
             THEN \* popped[-(last_n_messages*2):]
                  IF last_n_messages > 0
                  THEN Slice(popped, Len(popped) - last_n_messages * 2 + 1, Len(popped))
                  ELSE Slice(popped, (0 - last_n_messages) * 2 + 1, Len(popped))
             ELSE Slice(popped, 2, Len(popped))
      head == msg0
      new_system_prompt ==
        head \o <<"\n", "\n", "__context__", "\n">> \o summary \o <<"\n", "__end_context__">>
  IN IF recent_messages # <<>>
     THEN [messages |-> <<Message("system", new_system_prompt)>>
                          \o SubSeq(recent_messages, 1, Len(recent_messages) - 1),
           ret |-> recent_messages[Len(recent_messages)].content]
     ELSE [messages |-> <<Message("system", new_system_prompt)>>,
           ret |-> ContinuationPlaceholder]

(***************************************************************************)
UpdateContext(messages, system_prompt, last_n_messages, summary) ==
  LET msg0 == IF messages[1].role = "system" THEN messages[1].content ELSE system_prompt
      popped == SubSeq(messages, 1, Len(messages) - 1)
      recent_messages ==
        IF last_n_messages = 0 THEN <<>>
        ELSE IF Len(popped) > last_n_messages * 2
             THEN \* popped[-(last_n_messages*2):]
                  IF last_n_messages > 0
                  THEN Slice(popped, Len(popped) - last_n_messages * 2 + 1, Len(popped))
                  ELSE Slice(popped, (0 - last_n_messages) * 2 + 1, Len(popped))
             ELSE Slice(popped, 2, Len(popped))
      head == IF Contains(msg0, "__context__") THEN SplitHead(msg0, "__context__") ELSE msg0
      new_system_prompt ==
        head \o <<"\n", "\n", "__context__", "\n">> \o summary \o <<"\n", "__end_context__">>
  IN IF recent_messages # <<>>
     THEN [messages |-> <<Message("system", new_system_prompt)>>
                          \o SubSeq(recent_messages, 1, Len(recent_messages) - 1),
           ret |-> recent_messages[Len(recent_messages)].content]
     ELSE [messages |-> <<Message("system", new_system_prompt)>>,
           ret |-> ContinuationPlaceholder]

(***************************************************************************)
(* LLMInterface.do_later(current_task, deferred_task)                      *)
(***************************************************************************)
DeferredTask(task, summary) == [task |-> task, summary |-> summary]

DoLater(system_prompt, deferred_tasks, llm_reward, current_task, deferred_task) ==
  LET reward == llm_reward + 1
      current_summary == ContextRegion(system_prompt)
      base_system_prompt == RStrip(SplitHead(system_prompt, "__context__"))
      built == base_system_prompt
                 \o <<"\n", "__context__", "\n", "<current_task>", "\n">>
                 \o current_task
                 \o <<"\n", "</current_task>", "\n", "__end_context__">>
      new_system_prompt == IF ContainsSeq(built, HashReward)
                           THEN ReplaceRewardLines(built, HashReward, reward)
                           ELSE built
  IN [llm_reward |-> reward,
      deferred_tasks |-> Append(deferred_tasks, DeferredTask(deferred_task, current_summary)),
      system_prompt |-> new_system_prompt,
      messages |-> <<Message("system", new_system_prompt)>>,
      ret |-> current_task]

(***************************************************************************)
(* LLMInterface.complete_current_and_get_next()                            *)
(* none is TRUE for the None returned on an empty stack.                   *)
(***************************************************************************)
RECURSIVE Transcript(_)
Transcript(msgs) ==
  IF msgs = <<>> THEN <<>>
  ELSE <<msgs[1].role, ": ">> \o msgs[1].content
         \o (IF Len(msgs) > 1 THEN <<"\n">> ELSE <<>>) \o Transcript(Tail(msgs))

DeferredTaskMessage(task) ==
  <<"DEFERRED TASK (continue from where you left off):\n\n">> \o task

ContinueNote == <<"\n", "\n", "Based on current state of the project, first update your context ... YOU SHOULD BE VERY CAREFUL WHILE MANAGING CONTEXT FOR CURRENT TASK AND DEFERRED TASKS.">>

\* the branch of complete_current_and_get_next for a popped next_task, the
\* entries in remaining staying on the stack
ResumeDeferred(system_prompt, messages, llm_reward, next_task, remaining) ==
  LET base_system_prompt == IF Contains(system_prompt, "__context__")
                            THEN RStrip(SplitHead(system_prompt, "__context__"))
                            ELSE system_prompt
      current_summary == ContextRegion(system_prompt)
      completed == IF current_summary # <<>>
                   THEN current_summary \o <<"\n", "Status: COMPLETE">>
                   ELSE <<"Previous sub-task: COMPLETE">>
      with_conversation ==
        IF Len(messages) > 1
        THEN completed \o <<"\n", "\n", "<conversation>", "\n">>
               \o Transcript(Tail(messages)) \o <<"\n", "</conversation>">>
        ELSE completed
      completed_summary ==
        IF next_task.summary # <<>>
        THEN with_conversation
               \o <<"\n", "\n", "---", "\n", "Context from when this task was deferred:", "\n">>
               \o next_task.summary
        ELSE with_conversation
      built == base_system_prompt \o <<"\n", "__context__", "\n">> \o completed_summary
                 \o <<"\n", "__end_context__">> \o ContinueNote
      new_system_prompt == IF Contains(built, "$$REWARD$$:")
                           THEN ReplaceRewardLines(built, <<"$$REWARD$$:">>, llm_reward)
                           ELSE built
  IN [none |-> FALSE,
      deferred_tasks |-> remaining,
      system_prompt |-> new_system_prompt,
      messages |-> <<Message("system", new_system_prompt)>>,
      ret |-> DeferredTaskMessage(next_task.task)]

\* a complete_current_and_get_next that resets the conversation before it
\* looks at the stack
CompleteCurrentAndGetNextResetting(system_prompt, messages, deferred_tasks, llm_reward) ==
  IF deferred_tasks = <<>>
  THEN [none |-> TRUE, deferred_tasks |-> deferred_tasks, system_prompt |-> system_prompt,
        messages |-> <<Message("system", system_prompt)>>, ret |-> <<>>]
  ELSE ResumeDeferred(system_prompt, messages, llm_reward,
                      deferred_tasks[Len(deferred_tasks)],
                      SubSeq(deferred_tasks, 1, Len(deferred_tasks) - 1))

\* a stack that hands out its oldest entry first (a queue): C8 excludes it
CompleteOldestAndGetNext(system_prompt, messages, deferred_tasks, llm_reward) ==
  IF deferred_tasks = <<>>
  THEN [none |-> TRUE, deferred_tasks |-> deferred_tasks, system_prompt |-> system_prompt,
        messages |-> messages, ret |-> <<>>]
  ELSE ResumeDeferred(system_prompt, messages, llm_reward,
                      Head(deferred_tasks), Tail(deferred_tasks))

\* next_task = self.deferred_tasks.pop()
CompleteCurrentAndGetNext(system_prompt, messages, deferred_tasks, llm_reward) ==
  IF deferred_tasks = <<>>
  THEN [none |-> TRUE, deferred_tasks |-> deferred_tasks, system_prompt |-> system_prompt,
        messages |-> messages, ret |-> <<>>]
  ELSE ResumeDeferred(system_prompt, messages, llm_reward,
                      deferred_tasks[Len(deferred_tasks)],
                      SubSeq(deferred_tasks, 1, Len(deferred_tasks) - 1))

(***************************************************************************)
(* Messages MicroBot.run builds for the LLM                                *)
(***************************************************************************)
SummarizeContextSyntaxError(command) ==
  <<"COMMAND_ERROR: Invalid summarize_context syntax.\nYour command: ">> \o command
    \o <<"\n", "\n", "Correct usage:\n    summarize_context <no_of_recent_turns_to_keep> \"<your summary of the context>\" ...">>

DoLaterSyntaxError(command) ==
  <<"COMMAND_ERROR: Invalid do_later syntax.\nYour command: ">> \o command
    \o <<"\n", "\n", "Correct usage:\n    do_later \"<current_task>\" \"<deferred_task>\" ...">>

DangerousCommandMessage(command, explanation) ==
  <<"COMMAND_ERROR: ", "Dangerous command detected and blocked: ">> \o command
    \o <<"\n">> \o explanation \o <<"\n", "Please provide a safer alternative command.">>

\* a CmdReturn whose stdout is the JSON object {"content": "<text>"} is the
\* three symbols "{\"content\": \"", <text>, "\"}"
IsContentJson(stdout) ==
  Len(stdout) >= 2 /\ stdout[1] = "{\"content\": \"" /\ stdout[Len(stdout)] = "\"}"

\* the turn message for one CmdReturn (MicroBot.run, the formatting of llm_command_output)
OutputText(out) ==
  LET tail == <<"\n", "return code: ">> \o IntToStr(out.return_code)
                \o <<"\n", "stdout: ">> \o out.stdout \o <<"\n", "stderr: ">> \o out.stderr
  IN IF out.return_code = 0
     THEN IF out.stdout # <<>>
          THEN IF IsContentJson(out.stdout)
               THEN <<"'">> \o SubSeq(out.stdout, 2, Len(out.stdout) - 1) \o <<"'">>
               ELSE out.stdout
          ELSE <<"Command executed successfully with no output">> \o tail
     ELSE <<"COMMAND EXECUTION FAILED">> \o tail

MaxIterationsError(n) == <<"Max iterations ">> \o IntToStr(n) \o <<" reached">>
TimeoutError(t) == <<"Timeout of ">> \o IntToStr(t) \o <<" seconds reached">>

\* BotRunResult
BotRunResult(status, result, error) == [status |-> status, result |-> result, error |-> error]
NoResult == BotRunResult(FALSE, NullVal, NullVal)
\* a failure that forgets to fill in the error: C6 excludes it
FailedResultWithoutError(error) == BotRunResult(FALSE, NullVal, NullVal)
\* return_value as built at the head of run(), with the error filled in
FailedResult(error) == BotRunResult(FALSE, NullVal, StrVal(error))

(***************************************************************************)
(* Inputs of the model                                                     *)
(***************************************************************************)
CmdPwd == <<"p","w","d">>
CmdLsR == <<"l","s"," ","-","R">>
CmdDoLaterAB == <<"do_later"," ","\"","A","\""," ","\"","B","\"">>
CmdDoLaterCD == <<"do_later"," ","\"","C","\""," ","\"","D","\"">>
CmdDoLaterBad == <<"do_later"," ","\"","A","\"">>
CmdSummarize0 == <<"summarize_context"," ","0"," ","\"","S","\"">>
CmdSummarize1 == <<"summarize_context"," ","1"," ","\"","S","\"">>
CmdSummarizeBad == <<"summarize_context"," ","x">>
CmdSummarize0Empty == <<"summarize_context"," ","0"," ","\"","\"">>
CmdSummarizeNeg == <<"summarize_context"," ","-","1"," ","\"","S","\"">>

Answer(task_done, thoughts, cmd) ==
  JsonObject(RequiredKeys, task_done, StrVal(thoughts), StrVal(cmd))

\* what the backend may answer to one request when the LLM never defers a task
Responses ==
  {Answer("false", <<>>, c) : c \in {CmdPwd, CmdLsR, CmdDoLaterBad, CmdSummarize0,
                                     CmdSummarize1, CmdSummarizeBad}}
    \cup {Answer("true", <<"F">>, <<>>), Answer("1", <<>>, CmdPwd), NotJson}

\* one response of every kind the validator tells apart, and two it accepts
AskResponses ==
  {NotJson,
   JsonObject({"task_done", "thoughts"}, "false", StrVal(<<>>), StrVal(CmdPwd)),
   Answer("\"yes\"", <<>>, CmdPwd),
   Answer("false", <<>>, <<" ">>),
   JsonObject(RequiredKeys, "false", StrVal(<<>>), NumVal),
   JsonObject(RequiredKeys, "false", StrVal(<<>>), NullVal),
   Answer("true", <<>>, CmdPwd),
   JsonObject(RequiredKeys, "true", StrVal(<<>>), NumVal),
   Answer("false", <<>>, CmdPwd),
   Answer("true", <<"F">>, <<>>)}

\* an LLM that never produces a syntactically valid context command
SyntaxErrorResponses ==
  {Answer("false", <<>>, CmdDoLaterBad), Answer("false", <<>>, CmdSummarizeBad)}

\* shell commands as lists of words: the recursive ls, tree, recursive rm and
\* unbounded find of the blocklist with their flag variants, and the safe
\* commands of test_is_safe_command
SafetyWords ==
  {<<<<"l","s">>, <<"-","R">>>>,
   <<<<"l","s">>, <<"-","l","R">>>>,
   <<<<"l","s">>, <<"-","l">>, <<"-","R">>>>,
   <<<<"t","r","e","e">>>>,
   <<<<"r","m">>, <<"-","r">>, <<"x">>>>,
   <<<<"r","m">>, <<"-","R">>, <<"x">>>>,
   <<<<"r","m">>, <<"-","r","f">>, <<"x">>>>,
   <<<<"r","m">>, <<"-","f","r">>, <<"x">>>>,
   <<<<"r","m">>, <<"-","-","r","e","c","u","r","s","i","v","e">>, <<"x">>>>,
   <<<<"r","m">>, <<"-","v">>, <<"-","r","f">>, <<"x">>>>,
   <<<<"f","i","n","d">>, <<"/">>, <<"-","n","a","m","e">>, <<"x">>>>,
   <<<<"l","s">>, <<"-","l","a">>>>,
   <<<<"p","w","d">>>>,
   <<<<"r","m">>, <<"f","i","l","e",".","t","x","t">>>>,
   <<<<"f","i","n","d">>, <<".">>, <<"-","m","a","x","d","e","p","t","h">>, <<"2">>, <<"-","n","a","m","e">>, <<"x">>>>}

\* " ".join(words)
RECURSIVE JoinWords(_)
JoinWords(words) ==
  IF Len(words) = 0 THEN <<>>
  ELSE IF Len(words) = 1 THEN words[1]
  ELSE words[1] \o <<" ">> \o JoinWords(Tail(words))

\* an LLM that proposes these commands, or declares the task done
SafetyResponses ==
  {Answer("false", <<>>, JoinWords(w)) : w \in SafetyWords}
    \cup {Answer("true", <<"F">>, <<>>)}

\* an LLM that manages its context: it summarizes, defers and works
ContextResponses ==
  {Answer("false", <<>>, c) : c \in {CmdPwd, CmdSummarize0, CmdSummarize0Empty,
                                     CmdSummarize1, CmdDoLaterAB}}
    \cup {Answer("true", <<"F">>, <<>>)}

\* an LLM whose context commands are sometimes malformed, and that never
\* declares its task done
CommandResponses ==
  {Answer("false", <<>>, c) : c \in {CmdPwd, CmdSummarize0, CmdSummarizeBad,
                                     CmdDoLaterAB, CmdDoLaterBad}}

\* an LLM that asks to keep one exchange, a negative number of exchanges or
\* a number that is not one, and that never declares its task done
SummarizeResponses ==
  {Answer("false", <<>>, c) : c \in {CmdPwd, CmdSummarize1, CmdSummarizeNeg, CmdSummarizeBad}}

\* an LLM that defers, works and declares done in any order, without end
DrainResponses ==
  {Answer("false", <<>>, c) : c \in {CmdPwd, CmdDoLaterAB}}
    \cup {Answer("true", <<"F">>, <<>>)}

\* what it may answer when the LLM decomposes its task
DeferResponses ==
  {Answer("false", <<>>, c) : c \in {CmdPwd, CmdDoLaterAB, CmdDoLaterCD}}
    \cup {Answer("true", <<"F">>, <<>>)}

\* what the sandbox may answer to one command
CmdReturn(return_code, stdout, stderr) ==
  [return_code |-> return_code, stdout |-> stdout, stderr |-> stderr]
CmdReturns == {CmdReturn(0, <<"o">>, <<>>), CmdReturn(0, <<>>, <<>>),
               CmdReturn(1, <<>>, <<"e">>)}
DeferCmdReturns == {CmdReturn(0, <<"o">>, <<>>)}

Tasks == {<<"T">>}
BasePrompt == <<"SYSTEM PROMPT", "\n", "# ", "$$REWARD$$:", " ", "0">>

\* a Mount as self.mounted keeps it: its mount_type and the parameter it came in by
Mount(mount_type, via) == [mount_type |-> mount_type, via |-> via]
MountTypes == {"MOUNT", "COPY"}

\* what run() may get as additional_mounts: one or two mounts of either type
AdditionalMounts ==
  {<<a>> : a \in MountTypes} \cup {<<a, b>> : a \in MountTypes, b \in MountTypes}

\* two MicroBot/sandbox pairs, and the ephemeral host ports the OS hands out
Pairs == {"A", "B"}
Ports == {"p1", "p2"}

\* LLMInterface.__init__ / OllamaLocal.__init__: max_retries = 3
MaxRetries == 3

(***************************************************************************)
(* The sandbox: files, commands and what the container does with them      *)
(***************************************************************************)
\* the mounted host directory holds the file "old"; "new" does not exist yet
Files == {"old", "new"}
HostFiles == [f \in Files |-> IF f = "old" THEN "orig" ELSE "absent"]
NoFiles == [f \in Files |-> "absent"]

Permissions == {"READ_ONLY", "READ_WRITE"}

\* a _get_mount_args that binds every folder read-write at /workdir/<name>
GetMountArgsReadWrite(perm) == [target_path |-> "workdir", mode |-> "rw"]

\* _get_mount_args: a READ_ONLY folder is bound read-only at /ro/<name>, a
\* READ_WRITE folder read-write at /workdir/<name>
GetMountArgs(perm) ==
  IF perm = "READ_ONLY" THEN [target_path |-> "ro", mode |-> "ro"]
  ELSE [target_path |-> "workdir", mode |-> "rw"]

\* commands sent to the sandbox: echo, a failing command, a sleep that dies on
\* Ctrl+C and one that ignores it, and writes and reads below /workdir/<name>
\* and /ro/<name>
Command(op, path, file) == [op |-> op, path |-> path, file |-> file]
SlowOps == {"sleep", "sleep_trap"}
SandboxCommands ==
  {Command(op, "", "") : op \in {"echo", "false"} \cup SlowOps}
    \cup {Command("write", p, f) : p \in {"workdir", "ro"}, f \in Files}
    \cup {Command("cat", "workdir", f) : f \in Files}

\* the file a path names inside the container: the bind mount, else what was
\* written in the container, else (below an overlay) the read-only lower layer
View(mount, ovl, host, box, path, f) ==
  IF mount.target_path = path THEN host[f]
  ELSE IF path = "ro" THEN "absent"
  ELSE IF box[f] # "absent" THEN box[f]
  ELSE IF ovl THEN host[f]
  ELSE "absent"

\* where a write below a path lands: "host" through a read-write bind mount,
\* "box" inside the container, "fail" on a read-only bind mount or a missing /ro
WriteLands(mount, path) ==
  IF mount.target_path = path THEN (IF mount.mode = "rw" THEN "host" ELSE "fail")
  ELSE IF path = "ro" THEN "fail"
  ELSE "box"

\* the Observation of a command that ran to completion, as the CmdReturn
\* execute() builds from it (l.151-155)
RunInSession(c, mount, ovl, host, box) ==
  CASE c.op = "echo" -> CmdReturn(0, <<"echo">>, <<>>)
    [] c.op = "cat" ->
         IF View(mount, ovl, host, box, c.path, c.file) = "absent"
           THEN CmdReturn(1, <<"No such file or directory">>, <<>>)
           ELSE CmdReturn(0, <<View(mount, ovl, host, box, c.path, c.file)>>, <<>>)
    [] c.op = "write" ->
         IF WriteLands(mount, c.path) = "fail"
           THEN CmdReturn(1, <<"Read-only file system">>, <<>>)
           ELSE CmdReturn(0, <<>>, <<>>)
    [] OTHER -> CmdReturn(1, <<>>, <<>>)

\* the values execute() returns
Returned(type, value) == [type |-> type, value |-> value]
NoReturn == Returned("None", <<>>)
TimeoutReturn == CmdReturn(124, <<>>, <<"Command timed out after ", "300", " seconds">>)
ErrorReturn == CmdReturn(1, <<>>, <<"str(e)">>)

\* a start() that publishes every container on a fresh host port
PortMappingFresh(n) == n

\* the host port a container is published on: always self.port
PortMapping(n) == "self.port"

(***************************************************************************)
(* State                                                                   *)
(***************************************************************************)
VARIABLES
  pc,               \* where run() is: "idle", "ask", "loop", "returned", "raised"
  max_iterations,   \* run()'s argument
  timeout,          \* run()'s timeout_in_seconds
  iteration_count,  \* run()'s local counter
  start_time,       \* run()'s local start_time
  now,              \* time.time()
  llm_response,     \* the LLMAskResponse the loop is looking at
  return_value,     \* the BotRunResult run() returned
  exception,        \* the exception run() raised ("" for none)
  depth,            \* how many run() frames are below the current one
  system_prompt,    \* llm.system_prompt
  messages,         \* llm.messages
  deferred_tasks,   \* llm.deferred_tasks
  llm_reward,       \* llm.llm_reward
  retries,          \* llm.retries
  last_ask,         \* the message given to the most recent llm.ask()
  last_exec,        \* the command given to the most recent environment.execute()
  exec_count,       \* environment.execute() calls made by the current run() frame
  executed,         \* environment.execute() calls made since the top-level run() began
  rejected,         \* responses the validator has rejected so far
  response,         \* ask()'s local response: what the backend answered last
  prepared,         \* run() has called setup_tools and copied its additional mounts
  mounted,          \* self.mounted: the mounts accepted so far, each with the way it came in
  pairs,            \* two independent MicroBot/sandbox pairs: stage, host port, conversation
  runs              \* run() calls made on this MicroBot after an earlier run() returned

botVars == <<pc, max_iterations, timeout, iteration_count, start_time, now, llm_response,
             return_value, exception, depth, system_prompt, messages, deferred_tasks,
             llm_reward, retries, last_ask, last_exec, exec_count, executed, rejected,
             response, prepared, mounted, pairs, runs>>

llmVars == <<system_prompt, messages, deferred_tasks, llm_reward, retries>>
runVars == <<max_iterations, timeout, iteration_count, start_time, depth>>
envVars == <<last_exec, exec_count, executed, rejected, response, prepared>>

\* the sandbox environment (LocalDocker and LocalDockerEnvironment)
VARIABLES
  permission,       \* self.permission ("" before the environment is constructed)
  deployment,       \* LocalDocker's deployment: "unstarted", "running", "stopped"
  session,          \* LocalDocker's bash session: "closed" or "open"
  foreground,       \* the process that still holds the session ("" for none)
  overlay,          \* the overlay mount at the sandbox path is in place
  host_files,       \* the files of the mounted host directory
  box_files,        \* the files written inside the container at the sandbox path
  env_call,         \* the operation last called on the environment
  env_command,      \* the command of the last execute()
  env_channel,      \* what the execution channel did with it
  env_result,       \* what the last execute() returned
  env_exception,    \* the exception the last operation raised ("" for none)
  timeouts,         \* how many execute() calls have timed out
  stops,            \* how many stop() calls there have been
  container,        \* LocalDockerEnvironment's self.container (0 for None)
  live,             \* the running containers the instance launched, as <<id, host port>>
  launched          \* how many containers the instance has created

boxVars == <<permission, deployment, session, foreground, overlay, host_files, box_files,
             env_call, env_command, env_channel, env_result, env_exception, timeouts,
             stops, container, live, launched>>

vars == <<botVars, boxVars>>

\* the state with run() at start and the conversation given
InitState(start, conversation) ==
  /\ pc = start
  /\ max_iterations = 0
  /\ timeout = 0
  /\ iteration_count = 0
  /\ start_time = 0
  /\ now = 0
  /\ llm_response = NoResponse
  /\ return_value = NoResult
  /\ exception = ""
  /\ depth = 0
  /\ system_prompt = BasePrompt
  /\ messages = conversation
  /\ deferred_tasks = <<>>
  /\ llm_reward = 0
  /\ retries = 0
  /\ last_ask = <<>>
  /\ last_exec = <<>>
  /\ exec_count = 0
  /\ executed = 0
  /\ runs = 0
  /\ rejected = 0
  /\ response = NotJson
  /\ prepared = FALSE
  /\ permission = ""
  /\ deployment = "unstarted"
  /\ session = "closed"
  /\ foreground = ""
  /\ overlay = FALSE
  /\ host_files = HostFiles
  /\ box_files = NoFiles
  /\ env_call = ""
  /\ env_command = Command("", "", "")
  /\ env_channel = "none"
  /\ env_result = NoReturn
  /\ env_exception = ""
  /\ timeouts = 0
  /\ stops = 0
  /\ container = 0
  /\ live = {}
  /\ launched = 0
  /\ mounted = <<>>
  /\ pairs = [p \in Pairs |-> [stage |-> "new", port |-> "", messages |-> <<>>]]

\* MicroBot.__init__ (no folder_to_mount) -> _create_llm -> LLMInterface.__init__
Init == InitState("idle", <<Message("system", BasePrompt)>>)

\* before MicroBot.__init__: nothing is constructed, there is no conversation
InitNew == InitState("new", <<>>)

(***************************************************************************)
(* OllamaLocal.ask(message)                                                *)
(***************************************************************************)
\* ask() without the reset of retries at its head
StartAskKeepingRetries(message, msgs) ==
  /\ retries' = retries
  /\ messages' = Append(msgs, [role |-> "user", content |-> message])
  /\ last_ask' = message
  /\ pc' = "ask"

\* the head of ask(): reset retries, append the user turn, enter the request loop
StartAsk(message, msgs) ==
  /\ retries' = 0
  /\ messages' = Append(msgs, Message("user", message))
  /\ last_ask' = message
  /\ pc' = "ask"

\* _validate_llm_response finds retries >= max_retries and raises, whatever
\* the backend answered
AskRetriesExhausted(answers) ==
  /\ pc = "ask"
  /\ retries >= MaxRetries
  /\ \E raw \in answers : response' = raw
  /\ pc' = "raised"
  /\ exception' = "Exception: LLM is not responding in expected format. Maximum retries reached."
  /\ UNCHANGED <<boxVars, runs, mounted, pairs, runVars, last_exec, exec_count, executed, rejected, prepared, now, llm_response,
                 return_value, system_prompt, messages, deferred_tasks, llm_reward,
                 retries, last_ask>>

\* the backend's answer is rejected: one more retry, one corrective user turn
AskRejected(answers) ==
  /\ pc = "ask"
  /\ retries < MaxRetries
  /\ rejected < MaxRejected
  /\ \E raw \in answers :
       /\ ValidateLlmResponse(raw).kind = "retry"
       /\ response' = raw
       /\ retries' = retries + 1
       /\ messages' = Append(messages, Message("user", ValidateLlmResponse(raw).msg))
  /\ rejected' = rejected + 1
  /\ UNCHANGED <<boxVars, runs, mounted, pairs, pc, runVars, last_exec, exec_count, executed, prepared, now, llm_response,
                 return_value, exception, system_prompt, deferred_tasks, llm_reward,
                 last_ask>>

\* the validator itself fails on the backend's answer (command.strip() on a
\* number): the exception leaves ask() and run()
AskValidatorError(answers) ==
  /\ pc = "ask"
  /\ retries < MaxRetries
  /\ \E raw \in answers :
       /\ ValidateLlmResponse(raw).kind = "raise"
       /\ response' = raw
  /\ pc' = "raised"
  /\ exception' = "AttributeError: 'int' object has no attribute 'strip'"
  /\ UNCHANGED <<boxVars, runs, mounted, pairs, runVars, last_exec, exec_count, executed, rejected, prepared, now, llm_response,
                 return_value, system_prompt, messages, deferred_tasks, llm_reward,
                 retries, last_ask>>

\* the modelled LLM stops deferring once it has deferred MaxDeferred times
WithinDeferBound(resp) ==
  ~ /\ resp.command.t = "str"
    /\ IsFalse(resp.task_done)
    /\ StartsWith(resp.command.s, <<"do_later">>)
    /\ ParseDoLater(resp.command.s).ok
    /\ llm_reward >= MaxDeferred

\* the backend's answer is accepted: the assistant turn is appended and ask()
\* returns; bounded says whether the modelled LLM ever stops deferring
AskAccept(answers, bounded) ==
  /\ pc = "ask"
  /\ retries < MaxRetries
  /\ \E raw \in answers :
       /\ ValidateLlmResponse(raw).kind = "valid"
       /\ bounded => WithinDeferBound(ValidateLlmResponse(raw).resp)
       /\ messages' = Append(messages,
                        Message("assistant", JsonDumps(ValidateLlmResponse(raw).resp)))
       /\ llm_response' = ValidateLlmResponse(raw).resp
       /\ response' = raw
  /\ pc' = "loop"
  /\ UNCHANGED <<boxVars, runs, mounted, pairs, runVars, last_exec, exec_count, executed, rejected, prepared, now, return_value, exception, system_prompt,
                 deferred_tasks, llm_reward, retries, last_ask>>

AskAccepted(answers) == AskAccept(answers, TRUE)

\* an LLM that may defer a task whenever it is asked
AskAcceptedDeferring(answers) == AskAccept(answers, FALSE)

\* the wall clock advances while ask() waits for the backend (the time a
\* sandbox command took is time before the next ask() is answered)
Tick ==
  /\ pc = "ask"
  /\ now < MaxClock
  /\ now' = now + 1
  /\ UNCHANGED <<boxVars, runs, mounted, pairs, pc, runVars, envVars, llm_response, return_value, exception, llmVars,
                 last_ask>>

(***************************************************************************)
(* MicroBot.run(task, max_iterations, timeout_in_seconds)                  *)
(* The bot is built without additional tools and run() is called without   *)
(* additional mounts, so setup_tools and the mount loop do nothing.        *)
(***************************************************************************)
\* a run() that validates its budget only after setup_tools and the mounts
RunInvalidLate ==
  /\ pc = "idle"
  /\ \E n \in {0 - 1, 0} : max_iterations' = n
  /\ timeout' = MaxClock - 1
  /\ prepared' = TRUE
  /\ pc' = "raised"
  /\ exception' = "ValueError: max_iterations must be greater than 0"
  /\ UNCHANGED <<boxVars, runs, mounted, pairs, iteration_count, start_time, depth, last_exec, exec_count, executed, rejected,
                 response, now, llm_response, return_value, llmVars, last_ask>>

(***************************************************************************)
(* MicroBot.__init__(model, ..., folder_to_mount)                          *)
(***************************************************************************)
\* a constructor that takes folder_to_mount without _validate_folder_to_mount
MicroBotInitUnchecked ==
  /\ pc = "new"
  /\ \E folder \in {"None"} \cup MountTypes :
       mounted' = IF folder = "None" THEN <<>> ELSE <<Mount(folder, "folder_to_mount")>>
  /\ messages' = <<Message("system", system_prompt)>>
  /\ pc' = "idle"
  /\ UNCHANGED <<boxVars, runs, pairs, runVars, envVars, now, llm_response, return_value,
                 exception, system_prompt, deferred_tasks, llm_reward, retries, last_ask>>

\* the constructor with no folder or a MOUNT folder: the folder is recorded,
\* the environment and the LLM (its conversation is the system prompt) are created
MicroBotInit ==
  /\ pc = "new"
  /\ \E folder \in {"None", "MOUNT"} :
       mounted' = IF folder = "None" THEN <<>> ELSE <<Mount(folder, "folder_to_mount")>>
  /\ messages' = <<Message("system", system_prompt)>>
  /\ pc' = "idle"
  /\ UNCHANGED <<boxVars, runs, pairs, runVars, envVars, now, llm_response, return_value,
                 exception, system_prompt, deferred_tasks, llm_reward, retries, last_ask>>

\* the constructor with a folder_to_mount that is not a MOUNT mount:
\* _validate_folder_to_mount raises before anything is created
MicroBotInitInvalid ==
  /\ pc = "new"
  /\ pc' = "raised"
  /\ exception' = "ValueError: Only MOUNT mount type is supported for folder_to_mount"
  /\ UNCHANGED <<boxVars, runs, pairs, mounted, runVars, envVars, now, llm_response, return_value,
                 llmVars, last_ask>>

\* max_iterations <= 0: ValueError before anything else
RunInvalid ==
  /\ pc = "idle"
  /\ \E n \in {0 - 1, 0} : max_iterations' = n
  /\ timeout' = MaxClock - 1
  /\ pc' = "raised"
  /\ exception' = "ValueError: max_iterations must be greater than 0"
  /\ UNCHANGED <<boxVars, runs, mounted, pairs, iteration_count, start_time, depth, envVars, now, llm_response,
                 return_value, llmVars, last_ask>>

\* the head of run(): setup_tools, the additional mounts, iteration_count = 1,
\* start the timer, ask the task
Run(additional_mounts) ==
  /\ pc = "idle"
  /\ \E n \in 1..MaxIterArg : max_iterations' = n
  /\ timeout' = MaxClock - 1
  /\ iteration_count' = 1
  /\ start_time' = now
  /\ prepared' = TRUE
  /\ mounted' = mounted \o [i \in 1..Len(additional_mounts) |->
                             Mount(additional_mounts[i], "additional_mounts")]
  /\ \E task \in Tasks : StartAsk(task, messages)
  /\ UNCHANGED <<boxVars, runs, pairs, depth, last_exec, exec_count, executed, rejected, response, now, llm_response,
                 return_value, exception, system_prompt, deferred_tasks, llm_reward>>

\* run(task) without additional mounts
RunCall == Run(<<>>)

\* a further top-level run(task) on a MicroBot whose earlier run() returned:
\* the locals of run() start afresh, the attributes of the MicroBot and of its
\* LLM gateway are what the earlier run left
RunAgain ==
  /\ pc = "returned"
  /\ runs < MaxRuns
  /\ runs' = runs + 1
  /\ \E n \in 1..MaxIterArg : max_iterations' = n
  /\ timeout' = MaxClock - 1
  /\ iteration_count' = 1
  /\ start_time' = now
  /\ depth' = 0
  /\ exec_count' = 0
  /\ executed' = 0
  /\ return_value' = NoResult
  /\ \E task \in Tasks : StartAsk(task, messages)
  /\ UNCHANGED <<boxVars, mounted, pairs, last_exec, rejected, response, prepared, now, llm_response,
                 exception, system_prompt, deferred_tasks, llm_reward>>

\* run(task, additional_mounts) with COPY mounts only, each copied into the container
RunMounting(lists) ==
  \E a \in lists :
    /\ \A i \in 1..Len(a) : a[i] = "COPY"
    /\ Run(a)

\* run(task, additional_mounts) where _mount_additional raises at the i-th
\* mount: it is not a COPY mount, or copy_to_container returned False
RunMountFailed(lists) ==
  /\ pc = "idle"
  /\ \E n \in 1..MaxIterArg : max_iterations' = n
  /\ timeout' = MaxClock - 1
  /\ prepared' = TRUE
  /\ \E a \in lists, i \in 1..2, copied \in BOOLEAN :
       /\ i <= Len(a)
       /\ \A j \in 1..(i - 1) : a[j] = "COPY"
       /\ a[i] # "COPY" \/ ~copied
       /\ a[i] # "COPY" => copied
       /\ mounted' = mounted \o [j \in 1..(IF a[i] = "COPY" THEN i ELSE i - 1) |->
                                 Mount(a[j], "additional_mounts")]
       /\ exception' =
            IF a[i] # "COPY"
              THEN "ValueError: Only COPY mount type is supported for additional mounts for now"
              ELSE "ValueError: Failed to copy additional mount to container"
  /\ pc' = "raised"
  /\ UNCHANGED <<boxVars, runs, pairs, iteration_count, start_time, depth, last_exec, exec_count, executed,
                 rejected, response, now, llm_response, return_value, llmVars, last_ask>>

\* while llm_response.task_done is False
InLoop == pc = "loop" /\ IsFalse(llm_response.task_done)

\* the loop body passed both budget tests
WithinBudget ==
  /\ InLoop
  /\ ~(iteration_count + 1 >= max_iterations)
  /\ ~(now - start_time > timeout)

command == llm_response.command.s
IsSummarizeCommand == StartsWith(command, <<"summarize_context">>)
IsDoLaterCommand == StartsWith(command, <<"do_later">>)

\* a budget failure that empties the deferred-task stack on its way out: C5 excludes it
LoopMaxIterationsDraining ==
  /\ InLoop
  /\ iteration_count + 1 >= max_iterations
  /\ iteration_count' = iteration_count + 1
  /\ return_value' = FailedResult(MaxIterationsError(max_iterations))
  /\ pc' = "returned"
  /\ deferred_tasks' = <<>>
  /\ UNCHANGED <<boxVars, runs, mounted, pairs, max_iterations, timeout, start_time, depth, envVars, now, llm_response,
                 exception, system_prompt, messages, llm_reward, retries, last_ask>>

\* iteration_count += 1; if iteration_count >= max_iterations: return
LoopMaxIterations ==
  /\ InLoop
  /\ iteration_count + 1 >= max_iterations
  /\ iteration_count' = iteration_count + 1
  /\ return_value' = FailedResult(MaxIterationsError(max_iterations))
  /\ pc' = "returned"
  /\ UNCHANGED <<boxVars, runs, mounted, pairs, max_iterations, timeout, start_time, depth, envVars, now, llm_response,
                 exception, llmVars, last_ask>>

\* if elapsed_time > timeout: return
LoopTimeout ==
  /\ InLoop
  /\ ~(iteration_count + 1 >= max_iterations)
  /\ now - start_time > timeout
  /\ iteration_count' = iteration_count + 1
  /\ return_value' = FailedResult(TimeoutError(timeout))
  /\ pc' = "returned"
  /\ UNCHANGED <<boxVars, runs, mounted, pairs, max_iterations, timeout, start_time, depth, envVars, now, llm_response,
                 exception, llmVars, last_ask>>

\* summarize_context that does not parse: ask for a correction
LoopSummarizeSyntaxError ==
  /\ WithinBudget
  /\ IsSummarizeCommand
  /\ ~ParseSummarizeContext(command).ok
  /\ iteration_count' = iteration_count + 1
  /\ StartAsk(SummarizeContextSyntaxError(command), messages)
  /\ UNCHANGED <<boxVars, runs, mounted, pairs, max_iterations, timeout, start_time, depth, envVars, now, llm_response,
                 return_value, exception, system_prompt, deferred_tasks, llm_reward>>

\* summarize_context <n> "<summary>": rewrite the conversation, ask the message it returns
LoopSummarize ==
  /\ WithinBudget
  /\ IsSummarizeCommand
  /\ ParseSummarizeContext(command).ok
  /\ iteration_count' = iteration_count + 1
  /\ LET args == ParseSummarizeContext(command)
         r == UpdateContext(messages, system_prompt, args.last_n_messages, args.summary)
     IN StartAsk(r.ret, r.messages)
  /\ UNCHANGED <<boxVars, runs, mounted, pairs, max_iterations, timeout, start_time, depth, envVars, now, llm_response,
                 return_value, exception, system_prompt, deferred_tasks, llm_reward>>

\* a loop that treats a do_later that does not parse as a shell command
LoopDoLaterSyntaxErrorExecuted ==
  /\ WithinBudget
  /\ ~IsSummarizeCommand
  /\ IsDoLaterCommand
  /\ ~ParseDoLater(command).ok
  /\ iteration_count' = iteration_count + 1
  /\ last_exec' = command
  /\ exec_count' = exec_count + 1
  /\ executed' = executed + 1
  /\ StartAsk(OutputText(CmdReturn(127, <<>>, <<"e">>)), messages)
  /\ UNCHANGED <<boxVars, runs, mounted, pairs, rejected, response, prepared, max_iterations, timeout,
                 start_time, depth, now, llm_response, return_value, exception, system_prompt,
                 deferred_tasks, llm_reward>>

\* do_later that does not parse: ask for a correction
LoopDoLaterSyntaxError ==
  /\ WithinBudget
  /\ ~IsSummarizeCommand
  /\ IsDoLaterCommand
  /\ ~ParseDoLater(command).ok
  /\ iteration_count' = iteration_count + 1
  /\ StartAsk(DoLaterSyntaxError(command), messages)
  /\ UNCHANGED <<boxVars, runs, mounted, pairs, max_iterations, timeout, start_time, depth, envVars, now, llm_response,
                 return_value, exception, system_prompt, deferred_tasks, llm_reward>>

\* a do_later that focuses on <current> and loses <deferred>: C9 excludes it
LoopDoLaterWithoutPush ==
  /\ WithinBudget
  /\ ~IsSummarizeCommand
  /\ IsDoLaterCommand
  /\ ParseDoLater(command).ok
  /\ iteration_count' = iteration_count + 1
  /\ LET args == ParseDoLater(command)
         r == DoLater(system_prompt, deferred_tasks, llm_reward,
                      args.current_task, args.deferred_task)
     IN /\ llm_reward' = r.llm_reward
        /\ system_prompt' = r.system_prompt
        /\ StartAsk(r.ret, r.messages)
  /\ UNCHANGED <<boxVars, runs, mounted, pairs, max_iterations, timeout, start_time, depth, envVars, now, llm_response,
                 return_value, exception, deferred_tasks>>

\* do_later "<current>" "<deferred>": push, reset the conversation, ask <current>
LoopDoLater ==
  /\ WithinBudget
  /\ ~IsSummarizeCommand
  /\ IsDoLaterCommand
  /\ ParseDoLater(command).ok
  /\ iteration_count' = iteration_count + 1
  /\ LET args == ParseDoLater(command)
         r == DoLater(system_prompt, deferred_tasks, llm_reward,
                      args.current_task, args.deferred_task)
     IN /\ llm_reward' = r.llm_reward
        /\ deferred_tasks' = r.deferred_tasks
        /\ system_prompt' = r.system_prompt
        /\ StartAsk(r.ret, r.messages)
  /\ UNCHANGED <<boxVars, runs, mounted, pairs, max_iterations, timeout, start_time, depth, envVars, now, llm_response,
                 return_value, exception>>

\* a command the safety validator rejects: not executed, COMMAND_ERROR is asked
LoopUnsafe ==
  /\ WithinBudget
  /\ ~IsSummarizeCommand
  /\ ~IsDoLaterCommand
  /\ ~IsSafeCommand(command).is_safe
  /\ iteration_count' = iteration_count + 1
  /\ StartAsk(DangerousCommandMessage(command, IsSafeCommand(command).explanation), messages)
  /\ UNCHANGED <<boxVars, runs, mounted, pairs, max_iterations, timeout, start_time, depth, envVars, now, llm_response,
                 return_value, exception, system_prompt, deferred_tasks, llm_reward>>

\* a run loop that executes whatever is not a context command: C1 excludes it
LoopExecuteUnchecked(outputs) ==
  /\ WithinBudget
  /\ ~IsSummarizeCommand
  /\ ~IsDoLaterCommand
  /\ iteration_count' = iteration_count + 1
  /\ last_exec' = command
  /\ exec_count' = exec_count + 1
  /\ executed' = executed + 1
  /\ \E out \in outputs : StartAsk(OutputText(out), messages)
  /\ UNCHANGED <<boxVars, runs, mounted, pairs, rejected, response, prepared, max_iterations, timeout, start_time, depth, now, llm_response,
                 return_value, exception, system_prompt, deferred_tasks, llm_reward>>

\* a safe command: executed in the sandbox, its formatted output is asked
LoopExecute(outputs) ==
  /\ WithinBudget
  /\ ~IsSummarizeCommand
  /\ ~IsDoLaterCommand
  /\ IsSafeCommand(command).is_safe
  /\ iteration_count' = iteration_count + 1
  /\ last_exec' = command
  /\ exec_count' = exec_count + 1
  /\ executed' = executed + 1
  /\ \E out \in outputs : StartAsk(OutputText(out), messages)
  /\ UNCHANGED <<boxVars, runs, mounted, pairs, rejected, response, prepared, max_iterations, timeout, start_time, depth, now, llm_response,
                 return_value, exception, system_prompt, deferred_tasks, llm_reward>>

\* a run() that reports success as soon as the model is done: C7 excludes it
DoneReturnAtOnce ==
  /\ pc = "loop"
  /\ ~IsFalse(llm_response.task_done)
  /\ return_value' = BotRunResult(TRUE, llm_response.thoughts, NullVal)
  /\ pc' = "returned"
  /\ UNCHANGED <<boxVars, runs, mounted, pairs, runVars, envVars, now, llm_response, exception, llmVars, last_ask>>

\* the loop ended and complete_current_and_get_next() returned None
DoneReturn ==
  /\ pc = "loop"
  /\ ~IsFalse(llm_response.task_done)
  /\ LET r == CompleteCurrentAndGetNext(system_prompt, messages, deferred_tasks, llm_reward)
     IN /\ r.none
        /\ deferred_tasks' = r.deferred_tasks
        /\ system_prompt' = r.system_prompt
        /\ messages' = r.messages
  /\ return_value' = BotRunResult(TRUE, llm_response.thoughts, NullVal)
  /\ pc' = "returned"
  /\ UNCHANGED <<boxVars, runs, mounted, pairs, runVars, envVars, now, llm_response, exception,
                 llm_reward, retries, last_ask>>

\* the loop ended and a deferred task was popped: return self.run(next, ...),
\* a new frame with the same max_iterations and timeout_in_seconds
DoneRecurse ==
  /\ pc = "loop"
  /\ ~IsFalse(llm_response.task_done)
  /\ depth < MaxRecursion
  /\ LET r == CompleteCurrentAndGetNext(system_prompt, messages, deferred_tasks, llm_reward)
     IN /\ ~r.none
        /\ deferred_tasks' = r.deferred_tasks
        /\ system_prompt' = r.system_prompt
        /\ StartAsk(r.ret, r.messages)
  /\ depth' = depth + 1
  /\ iteration_count' = 1
  /\ start_time' = now
  /\ exec_count' = 0
  /\ executed' = executed
  /\ UNCHANGED <<boxVars, runs, mounted, pairs, rejected, response, prepared, max_iterations, timeout, now, llm_response, return_value, exception,
                 llm_reward, last_exec>>

\* the loop ended and a deferred task was popped, but the interpreter has no
\* stack left for one more frame of run(): RecursionError leaves every frame
DoneRecursionLimit ==
  /\ pc = "loop"
  /\ ~IsFalse(llm_response.task_done)
  /\ depth >= MaxRecursion
  /\ LET r == CompleteCurrentAndGetNext(system_prompt, messages, deferred_tasks, llm_reward)
     IN /\ ~r.none
        /\ deferred_tasks' = r.deferred_tasks
        /\ system_prompt' = r.system_prompt
        /\ messages' = r.messages
  /\ pc' = "raised"
  /\ exception' = "RecursionError: maximum recursion depth exceeded"
  /\ UNCHANGED <<boxVars, runs, mounted, pairs, runVars, envVars, now, llm_response, return_value,
                 llm_reward, retries, last_ask>>

(***************************************************************************)
(* LocalDocker (environment/swe-rex/LocalDocker.py)                        *)
(***************************************************************************)
\* __init__: start the deployment, open the bash session (start()) and, for a
\* READ_ONLY folder, try the overlay mount; its failure is only logged
LocalDockerInit ==
  /\ permission = ""
  /\ \E perm \in Permissions, mount_ok \in BOOLEAN :
       /\ permission' = perm
       /\ overlay' = (perm = "READ_ONLY" /\ mount_ok)
  /\ deployment' = "running"
  /\ session' = "open"
  /\ env_call' = "init"
  /\ UNCHANGED <<botVars, foreground, host_files, box_files, env_command, env_channel,
                 env_result, env_exception, timeouts, stops, container, live, launched>>

\* execute(): run_in_session under wait_for. The channel either carries the
\* command to completion, times out (and then carries the Ctrl+C or loses it),
\* or raises. interrupts says whether the timeout branch sends the Ctrl+C.
ExecuteInSession(commands, mount, interrupts) ==
  /\ deployment # "unstarted"
  /\ env_call' = "execute"
  /\ env_exception' = ""
  /\ \E c \in commands, ch \in {"completed", "timeout", "timeout_lost", "error"} :
       LET usable == deployment = "running" /\ session = "open"
           lands == IF c.op = "write" THEN WriteLands(mount, c.path) ELSE "none"
           process == IF foreground # "" THEN foreground ELSE c.op
       IN
       /\ ch = "completed" => usable /\ foreground = "" /\ c.op \notin SlowOps
       /\ ch \in {"timeout", "timeout_lost"} =>
            usable /\ (foreground # "" \/ c.op \in SlowOps) /\ timeouts < MaxTimeouts
       /\ env_command' = c
       /\ env_channel' = ch
       /\ env_result' = Returned("CmdReturn",
            CASE ch = "completed" -> RunInSession(c, mount, overlay, host_files, box_files)
              [] ch = "error" -> ErrorReturn
              [] OTHER -> TimeoutReturn)
       /\ host_files' = IF ch = "completed" /\ lands = "host"
                          THEN [host_files EXCEPT ![c.file] = "mod"] ELSE host_files
       /\ box_files' = IF ch = "completed" /\ lands = "box"
                         THEN [box_files EXCEPT ![c.file] = "mod"] ELSE box_files
       /\ timeouts' = IF ch \in {"timeout", "timeout_lost"} THEN timeouts + 1 ELSE timeouts
       /\ foreground' = IF ch = "timeout" /\ interrupts /\ process = "sleep" THEN ""
                        ELSE IF ch \in {"timeout", "timeout_lost"} THEN process
                        ELSE foreground
  /\ UNCHANGED <<botVars, permission, deployment, session, overlay, stops, container, live,
                 launched>>

\* an execute() whose timeout branch returns 124 without sending the Ctrl+C
LocalDockerExecuteNoInterrupt(commands) ==
  ExecuteInSession(commands, GetMountArgs(permission), FALSE)

LocalDockerExecute(commands) ==
  ExecuteInSession(commands, GetMountArgs(permission), TRUE)

\* stop(): close_session, and in the finally clause stop the deployment; an
\* exception of close_session leaves stop() after the deployment is stopped
LocalDockerStop ==
  /\ deployment # "unstarted"
  /\ stops < MaxStops
  /\ stops' = stops + 1
  /\ env_call' = "stop"
  /\ \E closed \in BOOLEAN :
       /\ closed => (deployment = "running" /\ session = "open")
       /\ env_exception' = IF closed THEN "" ELSE "close_session failed"
  /\ session' = "closed"
  /\ foreground' = ""
  /\ deployment' = "stopped"
  /\ UNCHANGED <<botVars, permission, overlay, host_files, box_files, env_command,
                 env_channel, env_result, timeouts, container, live, launched>>

(***************************************************************************)
(* LocalDockerEnvironment (environment/local_docker)                       *)
(***************************************************************************)
\* the body of start(): containers.run publishes the container on the host
\* port; docker refuses a host port a running container holds, and then the
\* created container never runs and self.container keeps its value
StartContainer(port) ==
  /\ launched < MaxLaunched
  /\ launched' = launched + 1
  /\ IF \E c \in live : c[2] = port
       THEN /\ env_exception' = "APIError: port is already allocated"
            /\ UNCHANGED <<container, live, overlay>>
       ELSE /\ env_exception' = ""
            /\ container' = launched + 1
            /\ live' = live \cup {<<launched + 1, port>>}
            /\ \E mount_ok \in BOOLEAN : overlay' = (permission' = "READ_ONLY" /\ mount_ok)

\* __init__ ends by calling start()
LocalDockerEnvironmentInit ==
  /\ permission = ""
  /\ \E perm \in Permissions : permission' = perm
  /\ env_call' = "init"
  /\ StartContainer(PortMapping(launched + 1))
  /\ UNCHANGED <<botVars, deployment, session, foreground, host_files, box_files,
                 env_command, env_channel, env_result, timeouts, stops>>

LocalDockerEnvironmentStart ==
  /\ permission # ""
  /\ permission' = permission
  /\ env_call' = "start"
  /\ StartContainer(PortMapping(launched + 1))
  /\ UNCHANGED <<botVars, deployment, session, foreground, host_files, box_files,
                 env_command, env_channel, env_result, timeouts, stops>>

\* stop(): stop and remove self.container if there is one
LocalDockerEnvironmentStop ==
  /\ permission # ""
  /\ stops < MaxStops
  /\ stops' = stops + 1
  /\ env_call' = "stop"
  /\ env_exception' = ""
  /\ live' = IF container # 0 THEN {c \in live : c[1] # container} ELSE live
  /\ container' = 0
  /\ UNCHANGED <<botVars, permission, deployment, session, foreground, overlay, host_files,
                 box_files, env_command, env_channel, env_result, timeouts, launched>>

\* execute(): POST the command; the text of the "output" field is returned, a
\* requests timeout and a connection error give an "Error: ..." text, and the
\* connection-error branch reloads self.container
LocalDockerEnvironmentExecute(commands) ==
  /\ permission # ""
  /\ env_call' = "execute"
  /\ \E c \in commands, ch \in {"completed", "timeout", "error"} :
       LET running == \E l \in live : l[1] = container
           mount == GetMountArgs(permission)
           lands == IF c.op = "write" THEN WriteLands(mount, c.path) ELSE "none"
       IN
       /\ ch = "completed" => running /\ c.op \notin SlowOps
       /\ ch = "timeout" => running /\ c.op \in SlowOps /\ timeouts < MaxTimeouts
       /\ env_command' = c
       /\ env_channel' = ch
       /\ IF ch = "error" /\ container = 0
            THEN /\ env_exception' = "AttributeError: 'NoneType' object has no attribute 'reload'"
                 /\ env_result' = NoReturn
            ELSE /\ env_exception' = ""
                 /\ env_result' = Returned("str",
                      CASE ch = "completed" ->
                             RunInSession(c, mount, overlay, host_files, box_files).stdout
                        [] ch = "timeout" -> <<"Error: Request failed">>
                        [] OTHER -> <<"Error: Could not connect">>)
       /\ host_files' = IF ch = "completed" /\ lands = "host"
                          THEN [host_files EXCEPT ![c.file] = "mod"] ELSE host_files
       /\ box_files' = IF ch = "completed" /\ lands = "box"
                         THEN [box_files EXCEPT ![c.file] = "mod"] ELSE box_files
       /\ timeouts' = IF ch = "timeout" THEN timeouts + 1 ELSE timeouts
  /\ UNCHANGED <<botVars, permission, deployment, session, foreground, overlay, stops,
                 container, live, launched>>

(***************************************************************************)
(* Two MicroBot/sandbox pairs constructed and run side by side             *)
(***************************************************************************)
\* the host ports held by the containers of the pairs
PortsInUse ==
  {pairs[q].port : q \in {r \in Pairs : pairs[r].stage \in {"environment", "ready"}}}

\* get_free_port(): the OS binds a socket to any port that is free at this
\* moment, the port is read, and the socket is closed again before returning
GetFreePort(p) ==
  /\ pairs[p].stage = "new"
  /\ \E port \in Ports \ PortsInUse :
       pairs' = [pairs EXCEPT ![p].port = port, ![p].stage = "port"]
  /\ UNCHANGED <<boxVars, runs, mounted, runVars, envVars, pc, now, llm_response, return_value,
                 exception, llmVars, last_ask>>

\* _create_environment: LocalDockerEnvironment(port=free_port) publishes its
\* container on that port, which docker refuses when a container holds it
CreateEnvironment(p) ==
  /\ pairs[p].stage = "port"
  /\ pairs' = [pairs EXCEPT ![p].stage =
                 IF pairs[p].port \in PortsInUse THEN "failed" ELSE "environment"]
  /\ UNCHANGED <<boxVars, runs, mounted, runVars, envVars, pc, now, llm_response, return_value,
                 exception, llmVars, last_ask>>

\* _create_llm: the pair's own gateway, whose conversation is the system prompt
CreateLlm(p) ==
  /\ pairs[p].stage = "environment"
  /\ pairs' = [pairs EXCEPT ![p].stage = "ready",
                            ![p].messages = <<Message("system", BasePrompt)>>]
  /\ UNCHANGED <<boxVars, runs, mounted, runVars, envVars, pc, now, llm_response, return_value,
                 exception, llmVars, last_ask>>

\* one turn of the pair's run(): a message is appended to its own conversation
PairTurn(p) ==
  /\ pairs[p].stage = "ready"
  /\ Len(pairs[p].messages) <= MaxPairTurns
  /\ \E task \in Tasks :
       pairs' = [pairs EXCEPT ![p].messages = Append(@, Message("user", task))]
  /\ UNCHANGED <<boxVars, runs, mounted, runVars, envVars, pc, now, llm_response, return_value,
                 exception, llmVars, last_ask>>

\* run() with an LLM that never defers a task
Next ==
  \/ RunInvalid \/ RunCall
  \/ AskRetriesExhausted(Responses) \/ AskRejected(Responses) \/ AskAccepted(Responses) \/ Tick
  \/ LoopMaxIterations \/ LoopTimeout
  \/ LoopSummarizeSyntaxError \/ LoopSummarize
  \/ LoopDoLaterSyntaxError
  \/ LoopUnsafe \/ LoopExecute(CmdReturns)
  \/ DoneReturn

Spec == Init /\ [][Next]_vars

\* run() with an LLM that decomposes its task with do_later
NextDefer ==
  \/ RunCall
  \/ AskAccepted(DeferResponses) \/ Tick
  \/ LoopMaxIterations \/ LoopTimeout
  \/ LoopDoLater \/ LoopExecute(DeferCmdReturns)
  \/ DoneReturn \/ DoneRecurse

SpecDefer == Init /\ [][NextDefer]_vars

\* run() with a backend that answers every kind of malformed response; every
\* step taken inside ask() receives one response
NextAsk ==
  \/ RunCall
  \/ AskRetriesExhausted(AskResponses) \/ AskRejected(AskResponses)
  \/ AskValidatorError(AskResponses) \/ AskAccepted(AskResponses)
  \/ LoopMaxIterations \/ LoopExecute(DeferCmdReturns)
  \/ DoneReturn

SpecAsk == Init /\ [][NextAsk]_vars

\* run() with an LLM whose every answer is a malformed do_later or
\* summarize_context command
NextSyntax ==
  \/ RunCall
  \/ AskAccepted(SyntaxErrorResponses)
  \/ Tick
  \/ LoopMaxIterations \/ LoopTimeout
  \/ LoopSummarizeSyntaxError \/ LoopDoLaterSyntaxError

SpecSyntax == Init /\ [][NextSyntax]_vars

\* construction with any folder_to_mount, then run() with any additional mounts
NextMounts ==
  \/ MicroBotInit \/ MicroBotInitInvalid
  \/ RunCall \/ RunMounting(AdditionalMounts) \/ RunMountFailed(AdditionalMounts)
  \/ AskAccepted(DeferResponses)
  \/ LoopMaxIterations \/ LoopExecute(DeferCmdReturns)
  \/ DoneReturn

SpecMounts == InitNew /\ [][NextMounts]_vars

\* run() with an LLM that summarizes its context, defers tasks and resumes them
NextContext ==
  \/ RunCall
  \/ AskAccepted(ContextResponses)
  \/ LoopMaxIterations
  \/ LoopSummarize \/ LoopDoLater \/ LoopExecute(DeferCmdReturns)
  \/ DoneReturn \/ DoneRecurse

SpecContext == Init /\ [][NextContext]_vars

\* run() with an LLM that issues well-formed and malformed context commands
NextCommands ==
  \/ RunCall
  \/ AskAccepted(CommandResponses)
  \/ LoopMaxIterations
  \/ LoopSummarizeSyntaxError \/ LoopSummarize
  \/ LoopDoLaterSyntaxError \/ LoopDoLater
  \/ LoopExecute(DeferCmdReturns)

SpecCommands == Init /\ [][NextCommands]_vars

\* run() with an LLM that keeps deferring while its deferred tasks are drained
NextDrain ==
  \/ RunCall
  \/ AskAcceptedDeferring(DrainResponses)
  \/ LoopMaxIterations
  \/ LoopDoLater \/ LoopExecute(DeferCmdReturns)
  \/ DoneReturn \/ DoneRecurse \/ DoneRecursionLimit

\* the constructor step by step, for a caller that passes no environment.
\* _validate_model_and_provider raises on a model that is not
\* <provider>/<name> with a known provider: nothing has been created yet
MicroBotInitInvalidModel ==
  /\ pc = "new"
  /\ pc' = "raised"
  /\ \E e \in {"ValueError: Model should be in the format <provider>/<model_name>",
                "ValueError: Unsupported model provider"} : exception' = e
  /\ UNCHANGED <<boxVars, runs, pairs, mounted, runVars, envVars, now, llm_response, return_value,
                 llmVars, last_ask>>

\* the mount and the model passed their validation: _create_environment
\* constructs a LocalDockerEnvironment, whose __init__ starts its container
MicroBotCreateEnvironment ==
  /\ pc = "new"
  /\ \E folder \in {"None", "MOUNT"} :
       mounted' = IF folder = "None" THEN <<>> ELSE <<Mount(folder, "folder_to_mount")>>
  /\ permission = ""
  /\ \E perm \in Permissions : permission' = perm
  /\ env_call' = "init"
  /\ StartContainer(PortMapping(launched + 1))
  /\ pc' = "environment"
  /\ UNCHANGED <<runs, pairs, runVars, envVars, now, llm_response, return_value, exception,
                 llmVars, last_ask, deployment, session, foreground, host_files, box_files,
                 env_command, env_channel, env_result, timeouts, stops>>

\* _create_llm: the gateway's conversation is the system prompt
MicroBotCreateLlm ==
  /\ pc = "environment"
  /\ messages' = <<Message("system", system_prompt)>>
  /\ pc' = "llm"
  /\ UNCHANGED <<boxVars, runs, pairs, mounted, runVars, envVars, now, llm_response, return_value,
                 exception, system_prompt, deferred_tasks, llm_reward, retries, last_ask>>

\* _create_llm raises: OllamaLocal.__init__ finds no model name or no port.
\* __init__ has no handler, the exception leaves the constructor
MicroBotCreateLlmFailed ==
  /\ pc = "environment"
  /\ pc' = "raised"
  /\ exception' = "ValueError: LOCAL_MODEL_NAME and LOCAL_MODEL_PORT environment variables must be set"
  /\ UNCHANGED <<boxVars, runs, pairs, mounted, runVars, envVars, now, llm_response, return_value,
                 llmVars, last_ask>>

\* install_tools went through: the constructor returns
MicroBotInstallTools ==
  /\ pc = "llm"
  /\ pc' = "idle"
  /\ UNCHANGED <<boxVars, runs, pairs, mounted, runVars, envVars, now, llm_response, return_value,
                 exception, llmVars, last_ask>>

\* _install_tool raises on an install command that returns non-zero.
\* __init__ has no handler, the exception leaves the constructor
MicroBotInstallToolFailed ==
  /\ pc = "llm"
  /\ pc' = "raised"
  /\ exception' = "RuntimeError: Failed to install tool"
  /\ UNCHANGED <<boxVars, runs, pairs, mounted, runVars, envVars, now, llm_response, return_value,
                 llmVars, last_ask>>

\* construction step by step with every fatal error, then run()
NextConstruct ==
  \/ MicroBotInitInvalid \/ MicroBotInitInvalidModel
  \/ MicroBotCreateEnvironment
  \/ MicroBotCreateLlm \/ MicroBotCreateLlmFailed
  \/ MicroBotInstallTools \/ MicroBotInstallToolFailed
  \/ RunCall
  \/ AskAccepted(DeferResponses)
  \/ LoopMaxIterations \/ LoopExecute(DeferCmdReturns)
  \/ DoneReturn

SpecConstruct == InitNew /\ [][NextConstruct]_vars

\* two run() calls on one MicroBot, with an LLM that defers, works and stops
NextRuns ==
  \/ RunCall \/ RunAgain
  \/ AskAccepted(DrainResponses)
  \/ LoopMaxIterations
  \/ LoopDoLater \/ LoopExecute(DeferCmdReturns)
  \/ DoneReturn \/ DoneRecurse

SpecRuns == Init /\ [][NextRuns]_vars

\* run() with an LLM that issues summarize_context with any kind of count
NextSummarize ==
  \/ RunCall
  \/ AskAccepted(SummarizeResponses)
  \/ LoopMaxIterations
  \/ LoopSummarizeSyntaxError \/ LoopSummarize \/ LoopExecute(DeferCmdReturns)

SpecSummarize == Init /\ [][NextSummarize]_vars

\* run() has ended: no step of NextDrain is enabled
RunEnded == pc \in {"returned", "raised"}

\* the interpreter goes on executing run(): while run() has not ended,
\* control moves on. Every step of NextDrain moves pc, and one of them is
\* enabled in every state in which run() has not ended.
RunAdvances ==
  /\ ~RunEnded
  /\ \E p \in {"ask", "loop", "returned", "raised"} : pc' = p /\ p # pc

\* each LLM ask and each sandbox execute returns, and run() is never suspended
SpecDrain == Init /\ [][NextDrain]_vars /\ WF_pc(RunAdvances)

\* run() with an LLM that proposes listing, deleting and searching commands
NextSafety ==
  \/ RunCall
  \/ AskAccepted(SafetyResponses)
  \/ LoopMaxIterations
  \/ LoopUnsafe
  \/ LoopExecute(DeferCmdReturns)
  \/ DoneReturn

SpecSafety == Init /\ [][NextSafety]_vars

\* any interleaving of the construction and run() steps of two pairs
NextPairs ==
  \E p \in Pairs :
    \/ GetFreePort(p)
    \/ CreateEnvironment(p)
    \/ CreateLlm(p)
    \/ PairTurn(p)

SpecPairs == InitNew /\ [][NextPairs]_vars

\* a LocalDocker environment driven by any sequence of calls
NextLocalDocker ==
  \/ LocalDockerInit
  \/ LocalDockerExecute(SandboxCommands)
  \/ LocalDockerStop

SpecLocalDocker == Init /\ [][NextLocalDocker]_vars

\* a LocalDockerEnvironment driven by any sequence of calls
NextLocalDockerEnvironment ==
  \/ LocalDockerEnvironmentInit
  \/ LocalDockerEnvironmentStart
  \/ LocalDockerEnvironmentExecute(SandboxCommands)
  \/ LocalDockerEnvironmentStop

SpecLocalDockerEnvironment == Init /\ [][NextLocalDockerEnvironment]_vars

(***************************************************************************)
(* Properties of run()                                                     *)
(***************************************************************************)
\* the pass of the loop that is about to run handles a command that is neither
\* summarize_context nor do_later
OrdinaryCommand == InLoop /\ ~IsSummarizeCommand /\ ~IsDoLaterCommand
\* the validator's verdict on the command of the pass
UnsafeCommand == GetDangerousCommandExplanation(command) # <<>>
\* the step hands a command to the sandbox
Executes == last_exec' # last_exec \/ exec_count' = exec_count + 1

\* C1: a command the safety validator classifies as unsafe is never handed to
\* the sandbox: every step that executes a command executes the command of an
\* ordinary pass that the validator found safe, and a pass that handles an
\* unsafe command either ends the run on a spent budget or asks the LLM a
\* COMMAND_ERROR message that quotes the command and carries the reason and
\* the alternative.
UnsafeCommandNeverExecuted ==
  [][ /\ Executes => /\ OrdinaryCommand
                     /\ ~UnsafeCommand
                     /\ last_exec' = command
      /\ (OrdinaryCommand /\ UnsafeCommand)
           => /\ UNCHANGED <<last_exec, exec_count>>
              /\ \/ pc' = "returned" /\ ~WithinBudget
                 \/ /\ pc' = "ask"
                    /\ StartsWith(last_ask', <<"COMMAND_ERROR: ">>)
                    /\ ContainsSeq(last_ask', command)
                    /\ Contains(last_ask', "REASON: ")
                    /\ Contains(last_ask', "ALTERNATIVE: ")
                    /\ messages' = Append(messages, Message("user", last_ask'))
    ]_vars

\* `ls -R` was proposed after a command had been executed, and was answered
\* with COMMAND_ERROR instead of being executed
UnsafeCommandBlocked ==
  /\ pc = "ask"
  /\ llm_response.command = StrVal(CmdLsR)
  /\ StartsWith(last_ask, <<"COMMAND_ERROR: ", "Dangerous command detected and blocked: ">>)
  /\ exec_count = 1
  /\ last_exec = CmdPwd

\* C2: a pass of the loop that handles summarize_context, do_later, a syntax
\* error of either, or a safety rejection, and goes on to ask the LLM again,
\* leaves the iteration counter as it was.
ContextPassKeepsIterationCount ==
  [][ (InLoop /\ pc' = "ask"
         /\ (IsSummarizeCommand \/ IsDoLaterCommand \/ UnsafeCommand))
        => iteration_count' = iteration_count
    ]_vars

\* C3: "Max iterations N reached" is returned only when the number of commands
\* executed in the sandbox has reached max_iterations (so a run whose model is
\* done after fewer commands succeeds).
MaxIterationsOnlyAfterNCommands ==
  (pc = "returned" /\ return_value.error = StrVal(MaxIterationsError(max_iterations)))
    => exec_count >= max_iterations

\* C4: a run whose model proposes only safe ordinary commands and is never
\* done ends with "Timeout of T seconds reached" when the elapsed time has
\* exceeded T by the pass that ends it, and with "Max iterations N reached"
\* otherwise.
SafeCommandsEndInBudgetError ==
  [][ (OrdinaryCommand /\ ~UnsafeCommand /\ iteration_count = exec_count + 1
         /\ pc' = "returned")
        => return_value' = FailedResult(IF now - start_time > timeout
                                        THEN TimeoutError(timeout)
                                        ELSE MaxIterationsError(max_iterations))
    ]_vars

(***************************************************************************)
(* Properties of run() with deferred tasks                                 *)
(***************************************************************************)
\* C5: a pass that fails a budget test returns at once with status false: it
\* asks nothing, executes nothing, pops nothing, and leaves the deferred-task
\* stack, the conversation and the system prompt as they were; and a run
\* that has returned takes no further step.
FailureReturnsImmediately ==
  [][ /\ pc # "returned"
      /\ (InLoop /\ ~WithinBudget)
           => /\ pc' = "returned"
              /\ return_value'.status = FALSE
              /\ UNCHANGED <<deferred_tasks, messages, system_prompt, llm_reward,
                             last_ask, last_exec, exec_count, depth>>
    ]_vars

\* run() returned a failure while two deferred tasks were still pending
FailedWithPendingTasks ==
  /\ pc = "returned"
  /\ return_value.status = FALSE
  /\ Len(deferred_tasks) = 2

\* C6: every BotRunResult that run() returns, from a recursive call too, has
\* with status false an error string and a null result, and with status true
\* a null error.
ResultPairsStatusWithError ==
  pc = "returned"
    => /\ return_value.status = FALSE
            => /\ return_value.error.t = "str"
               /\ return_value.error.s # <<>>
               /\ return_value.result = NullVal
       /\ return_value.status = TRUE => return_value.error = NullVal

\* a deferred task that was drained recursively ended in a failure
DrainedTaskFailed ==
  /\ pc = "returned"
  /\ depth > 0
  /\ return_value.status = FALSE

\* C7: run() returns status true only with an empty deferred-task stack, the
\* result being that of the task it ran last; while the stack is non-empty a
\* model that is done makes run() pop the top task and run it in a new frame
\* with the same max_iterations and timeout_in_seconds.
SuccessOnlyWithEmptyStack ==
  /\ [](pc = "returned" /\ return_value.status = TRUE
          => /\ deferred_tasks = <<>>
             /\ return_value.result = llm_response.thoughts)
  /\ [][ (pc = "loop" /\ ~IsFalse(llm_response.task_done) /\ deferred_tasks # <<>>)
           => /\ pc' = "ask"
              /\ depth' = depth + 1
              /\ Len(deferred_tasks') = Len(deferred_tasks) - 1
              /\ max_iterations' = max_iterations
              /\ timeout' = timeout
              /\ iteration_count' = 1
              /\ start_time' = now
        ]_vars

\* run() returned success after draining two deferred tasks
SucceededAfterDraining ==
  /\ pc = "returned"
  /\ return_value.status = TRUE
  /\ depth = 2

\* C8: the deferred tasks form a stack: do_later puts its task on top of the
\* entries already there, and a completion takes the entry on top, the most
\* recently pushed one that is still there, and asks the LLM that task.
DeferredTasksResumeLifo ==
  [][ deferred_tasks' # deferred_tasks
        => \/ /\ IsDoLaterCommand
              /\ Len(deferred_tasks') = Len(deferred_tasks) + 1
              /\ SubSeq(deferred_tasks', 1, Len(deferred_tasks)) = deferred_tasks
              /\ deferred_tasks'[Len(deferred_tasks')].task
                    = ParseDoLater(command).deferred_task
           \/ /\ ~InLoop
              /\ deferred_tasks # <<>>
              /\ deferred_tasks' = SubSeq(deferred_tasks, 1, Len(deferred_tasks) - 1)
              /\ last_ask' = DeferredTaskMessage(deferred_tasks[Len(deferred_tasks)].task)
    ]_vars

\* after do_later "A" "B" and then do_later "C" "D", D is being resumed while B
\* is still on the stack
NestedTaskResumedFirst ==
  /\ depth = 1
  /\ Len(deferred_tasks) = 1
  /\ deferred_tasks[1].task = <<"B">>
  /\ last_ask = DeferredTaskMessage(<<"D">>)

\* C9: do_later makes the stack one deeper, a completion that pops makes it
\* one shallower and asks a message containing the popped task, so the depth
\* is the number of do_later calls (llm_reward) minus the number of
\* completions that popped (depth), and is never negative.
StackDepthCountsOpenBranches ==
  /\ [](/\ Len(deferred_tasks) = llm_reward - depth
        /\ llm_reward - depth >= 0)
  /\ [][ /\ llm_reward' # llm_reward
             => /\ llm_reward' = llm_reward + 1
                /\ Len(deferred_tasks') = Len(deferred_tasks) + 1
         /\ depth' # depth
             => /\ depth' = depth + 1
                /\ deferred_tasks # <<>>
                /\ Len(deferred_tasks') = Len(deferred_tasks) - 1
                /\ ContainsSeq(last_ask', deferred_tasks[Len(deferred_tasks)].task)
        ]_vars

\* two do_later calls and one completion: one branch is open
OneBranchOpenAfterCompletion ==
  /\ llm_reward = 2
  /\ depth = 1
  /\ Len(deferred_tasks) = 1
  /\ pc = "loop"

(***************************************************************************)
(* Properties of the validator                                             *)
(***************************************************************************)
\* task_done == False / task_done == True, as Python compares them
EqualsFalse(x) == x \in {"false", "0"}
EqualsTrue(x) == x \in {"true", "1"}

\* C10: a response that ask() returns has, when its task_done is false, a
\* command that is a string with a non-whitespace character, and when its
\* task_done is true, an empty command.
AcceptedResponsePairsDoneWithCommand ==
  pc = "loop"
    => /\ EqualsFalse(llm_response.task_done)
            => /\ llm_response.command.t = "str"
               /\ Strip(llm_response.command.s) # <<>>
       /\ EqualsTrue(llm_response.task_done)
            => Strip(llm_response.command.s) = <<>>

\* C11: every response ask() returns has a boolean task_done, and run()
\* reports success only for a response whose task_done is the boolean true.
AcceptedTaskDoneIsBoolean ==
  /\ pc = "loop" => llm_response.task_done \in {"true", "false"}
  /\ (pc = "returned" /\ return_value.status = TRUE) => llm_response.task_done = "true"

\* C12: ask() raises "Maximum retries reached" only on a backend response
\* that is itself invalid: a schema-valid response to a request that ask()
\* made is never thrown away.
FatalOnlyOnInvalidResponse ==
  [][ (pc = "ask" /\ pc' = "raised")
        => ValidateLlmResponse(response').kind # "valid"
    ]_vars

\* C13: while retries < max_retries, a backend response that is not
\* schema-valid is answered with a corrective retry and never with an
\* exception: ask() goes on, retries grows by exactly one, exactly one user
\* message starting with LLM_RES_ERROR is appended, and no LLMAskResponse is
\* returned.
RejectionIsCorrectiveRetry ==
  [][ (pc = "ask" /\ retries < MaxRetries
         /\ ValidateLlmResponse(response').kind # "valid")
        => /\ pc' = "ask"
           /\ exception' = exception
           /\ retries' = retries + 1
           /\ Len(messages') = Len(messages) + 1
           /\ SubSeq(messages', 1, Len(messages)) = messages
           /\ messages'[Len(messages')].role = "user"
           /\ Head(messages'[Len(messages')].content) = "LLM_RES_ERROR: "
           /\ llm_response' = llm_response
    ]_vars

\* C14: when the LLM never produces a syntactically valid do_later or
\* summarize_context command, the corrective loop of run() ends in a fatal
\* error: a run whose last request to the LLM was a syntax correction ends
\* with an exception and not with a returned result.
SyntaxErrorsEscalateToFatal ==
  (/\ pc \in {"returned", "raised"}
   /\ last_ask \in {DoLaterSyntaxError(CmdDoLaterBad),
                    SummarizeContextSyntaxError(CmdSummarizeBad)})
    => pc = "raised"

\* C15: run() with max_iterations <= 0 raises the validation error before any
\* side effect: no tool setup and no mount copy, no request to the LLM, no
\* command in the sandbox, and the conversation and the deferred-task stack
\* stay as they were.
InvalidBudgetFailsFast ==
  [][ (pc = "idle" /\ max_iterations' <= 0)
        => /\ pc' = "raised"
           /\ exception' = "ValueError: max_iterations must be greater than 0"
           /\ UNCHANGED <<prepared, last_ask, retries, response, last_exec, exec_count,
                          system_prompt, messages, deferred_tasks, llm_reward>>
    ]_vars

\* C15 witness: run() was called with a non-positive budget and has raised
InvalidBudgetRaised ==
  /\ pc = "raised"
  /\ max_iterations <= 0
  /\ exception = "ValueError: max_iterations must be greater than 0"
  /\ ~prepared
  /\ exec_count = 0
  /\ messages = <<Message("system", BasePrompt)>>

\* C16: execute() never raises for an ordinary command failure, a timeout or
\* an execution-channel error: it returns a CmdReturn whose return code is
\* non-zero whenever the command did not succeed, and 124 with a non-empty
\* stderr when the command timed out.
ExecuteAlwaysReturnsCmdReturn ==
  env_call = "execute" =>
    /\ env_exception = ""
    /\ env_result.type = "CmdReturn"
    /\ (env_channel # "completed" \/ env_command.op = "false")
         => env_result.value.return_code # 0
    /\ env_channel \in {"timeout", "timeout_lost"}
         => (env_result.value.return_code = 124 /\ env_result.value.stderr # <<>>)

ReadOnlyMountKeepsHost ==
  permission = "READ_ONLY" =>
    /\ host_files = HostFiles
    /\ (/\ env_call = "execute"
        /\ env_channel = "completed"
        /\ env_command.op = "cat"
        /\ box_files[env_command.file] = "mod")
         => env_result = Returned("CmdReturn", CmdReturn(0, <<"mod">>, <<>>))

\* C18 witness: below a READ_ONLY mount a new file was created and an existing
\* one modified, cat of the new file has succeeded, and the host directory
\* has neither
OverlayFileSeenOnlyInSandbox ==
  /\ permission = "READ_ONLY"
  /\ box_files = [f \in Files |-> "mod"]
  /\ env_call = "execute"
  /\ env_channel = "completed"
  /\ env_command = Command("cat", "workdir", "new")
  /\ env_result = Returned("CmdReturn", CmdReturn(0, <<"mod">>, <<>>))
  /\ host_files["new"] = "absent"
  /\ host_files["old"] = "orig"

\* C19: stop() is idempotent: a stop() called right after a stop() raises
\* nothing and leaves the environment as the first call left it.
StopIsIdempotent ==
  [][ (env_call = "stop" /\ env_call' = "stop" /\ stops' = stops + 1)
        => /\ env_exception' = ""
           /\ UNCHANGED <<permission, deployment, session, foreground, overlay,
                          host_files, box_files, container, live, launched>>
    ]_vars

StoppedIsTerminal ==
  [][ /\ stops >= 1
        => ~(deployment' = "running" \/ \E c \in live' : c[1] = container')
      /\ (/\ env_call' = "execute"
          /\ ~(deployment = "running" \/ \E c \in live : c[1] = container))
        => (env_exception' # "" /\ env_result' = env_result)
    ]_vars

\* C22: two orchestrator/sandbox pairs share no mutable state: under any
\* interleaving of their construction and run() steps, a step of one pair
\* leaves the other pair's state as it was, and the two pairs are never given
\* the same host port.
PairsShareNothing ==
  [][ /\ \E p \in Pairs : \A q \in Pairs \ {p} : pairs'[q] = pairs[q]
      /\ \A p \in Pairs : \A q \in Pairs \ {p} :
            pairs'[p].port # "" => pairs'[p].port # pairs'[q].port
    ]_vars

\* C24: MOUNT mounts are accepted only by the constructor and COPY mounts only
\* as additional mounts of run(): every recorded mount has the type of the way
\* it came in, a COPY folder_to_mount or a MOUNT additional mount ends in a
\* ValueError, and the step that raises it asks the LLM nothing and executes
\* no command.
MountTypeByEntryPoint ==
  /\ [](\A i \in 1..Len(mounted) :
          /\ mounted[i].via = "folder_to_mount" => mounted[i].mount_type = "MOUNT"
          /\ mounted[i].via = "additional_mounts" => mounted[i].mount_type = "COPY")
  /\ [][ exception' \in
           {"ValueError: Only MOUNT mount type is supported for folder_to_mount",
            "ValueError: Only COPY mount type is supported for additional mounts for now"}
         => /\ pc' = "raised"
            /\ last_ask = <<>> /\ last_ask' = <<>>
            /\ exec_count' = 0
            /\ messages' = messages
            /\ \A i \in 1..Len(mounted') : mounted'[i].mount_type # "COPY"
                                             \/ mounted'[i].via # "folder_to_mount"
     ]_vars

\* C24 witness: run() on a bot constructed with a MOUNT folder was given a
\* COPY mount followed by a MOUNT mount; the first was copied, the second raised
MountAdditionalRefused ==
  /\ pc = "raised"
  /\ exception = "ValueError: Only COPY mount type is supported for additional mounts for now"
  /\ mounted = <<Mount("MOUNT", "folder_to_mount"), Mount("COPY", "additional_mounts")>>
  /\ last_ask = <<>>

\* a word is a short option (-x...) / holds the letter c
IsShortOption(word) == Len(word) >= 2 /\ word[1] = "-" /\ word[2] # "-"
HasLetter(word, c) == \E k \in 1..Len(word) : word[k] = c
\* the commands the blocklist is stated to cover: ls with -R among its short
\* options, tree, rm with -r, -R, -rf, -fr or --recursive, find without -maxdepth
InvokesRecursive(words) ==
  \/ /\ words[1] = <<"l","s">>
     /\ \E i \in 2..Len(words) : IsShortOption(words[i]) /\ HasLetter(words[i], "R")
  \/ words[1] = <<"t","r","e","e">>
  \/ /\ words[1] = <<"r","m">>
     /\ \E i \in 2..Len(words) :
          words[i] \in {<<"-","r">>, <<"-","R">>, <<"-","r","f">>, <<"-","f","r">>,
                        <<"-","-","r","e","c","u","r","s","i","v","e">>}
  \/ /\ words[1] = <<"f","i","n","d">>
     /\ ~ \E i \in 2..Len(words) : words[i] = <<"-","m","a","x","d","e","p","t","h">>

\* C23: _is_safe_command returns false, with an explanation that holds a
\* reason and an alternative, for every command that invokes a recursive ls,
\* tree, a recursive rm or a find without -maxdepth, and the pass of the loop
\* that handles it executes nothing; it returns true with no explanation for
\* `ls -la`, `pwd`, `rm file.txt` and find with -maxdepth.
BlocklistCoversRecursiveCommands ==
  [][ \A words \in SafetyWords :
        (InLoop /\ WithinBudget /\ command = JoinWords(words))
          => IF InvokesRecursive(words)
               THEN /\ ~IsSafeCommand(command).is_safe
                    /\ Contains(IsSafeCommand(command).explanation, "REASON: ")
                    /\ Contains(IsSafeCommand(command).explanation, "ALTERNATIVE: ")
                    /\ ~Executes
               ELSE /\ IsSafeCommand(command).is_safe
                    /\ IsSafeCommand(command).explanation = <<>>
    ]_vars

\* the pass of the loop that is about to run is a well-formed do_later
DoLaterPass ==
  WithinBudget /\ ~IsSummarizeCommand /\ IsDoLaterCommand /\ ParseDoLater(command).ok
\* the context region of the system message the LLM is presented with
PresentedRegion == ContextRegion(messages[1].content)

\* C25: do_later(current, deferred) pushes the deferred task together with
\* the context region in effect in the system message the LLM sees (also one
\* that update_context installed last); afterwards the conversation is the
\* system message alone, whose region holds current, and current is what is
\* returned and asked next.
DoLaterSavesPresentedRegion ==
  [][ DoLaterPass =>
        LET args == ParseDoLater(command) IN
        /\ deferred_tasks' =
             Append(deferred_tasks, DeferredTask(args.deferred_task, PresentedRegion))
        /\ Len(messages') = 2
        /\ messages'[1].role = "system"
        /\ ContextRegion(messages'[1].content) =
             <<"<current_task>", "\n">> \o args.current_task \o <<"\n", "</current_task>">>
        /\ messages'[2] = Message("user", args.current_task)
        /\ last_ask' = args.current_task
    ]_vars

\* the model declared its task done while a deferred task waits on the stack
ResumePass == pc = "loop" /\ ~IsFalse(llm_response.task_done) /\ deferred_tasks # <<>>

\* C26: complete_current_and_get_next on a non-empty stack rebuilds the region
\* from the context region in effect for the finished sub-task (also one that
\* update_context installed) marked COMPLETE, the transcript of the preceding
\* conversation and the popped task's saved summary; the conversation becomes
\* the system message alone and the "continue from where you left off"
\* message with the deferred task is returned and asked.
ResumeRebuildsFromPresentedRegion ==
  [][ ResumePass =>
        LET next_task == deferred_tasks[Len(deferred_tasks)]
            rebuilt == ContextRegion(messages'[1].content)
        IN
        /\ PresentedRegion # <<>> =>
             StartsWith(rebuilt, PresentedRegion \o <<"\n", "Status: COMPLETE">>)
        /\ ContainsSeq(rebuilt, <<"<conversation>", "\n">> \o Transcript(Tail(messages))
                                  \o <<"\n", "</conversation>">>)
        /\ next_task.summary # <<>> => ContainsSeq(rebuilt, next_task.summary)
        /\ deferred_tasks' = SubSeq(deferred_tasks, 1, Len(deferred_tasks) - 1)
        /\ Len(messages') = 2
        /\ messages'[1].role = "system"
        /\ messages'[2] = Message("user", DeferredTaskMessage(next_task.task))
        /\ last_ask' = DeferredTaskMessage(next_task.task)
    ]_vars

\* the pass of the loop that is about to run is a well-formed summarize_context
SummarizePass == WithinBudget /\ IsSummarizeCommand /\ ParseSummarizeContext(command).ok
\* the conversation before the call without the system message and without
\* the assistant turn that asked for the update
EarlierTurns == SubSeq(messages, 2, Len(messages) - 1)
\* the last k elements of s, all of s when it has fewer
LastOf(s, k) == IF Len(s) <= k THEN s ELSE SubSeq(s, Len(s) - k + 1, Len(s))

UpdateContextZeroClearsTurns ==
  [][ (SummarizePass /\ ParseSummarizeContext(command).last_n_messages = 0) =>
        /\ Len(messages') = 2
        /\ messages'[1].role = "system"
        /\ Contains(messages'[1].content, "__context__")
        /\ ContextRegion(messages'[1].content) = ParseSummarizeContext(command).summary
        /\ messages'[2] = Message("user", ContinuationPlaceholder)
        /\ last_ask' = ContinuationPlaceholder
    ]_vars

\* C28 witness: summarize_context 0 "" after a command was executed: the
\* conversation is the system message with an empty region, and the
\* placeholder is being asked
AllTurnsCleared ==
  /\ pc = "ask"
  /\ exec_count = 1
  /\ llm_response.command.s = CmdSummarize0Empty
  /\ Len(messages) = 2
  /\ Contains(messages[1].content, "__context__")
  /\ PresentedRegion = <<>>
  /\ last_ask = ContinuationPlaceholder

\* how often the symbol sym occurs in s
Occurrences(s, sym) == Cardinality({i \in 1..Len(s) : s[i] = sym})
\* the prompt has no region, or one __context__ followed by one __end_context__
AtMostOneRegion(prompt) ==
  /\ Occurrences(prompt, "__context__") <= 1
  /\ Occurrences(prompt, "__end_context__") = Occurrences(prompt, "__context__")
  /\ Contains(prompt, "__context__") =>
       IndexOf(prompt, "__context__") < IndexOf(prompt, "__end_context__")

BeforeRegion(prompt) == SplitHead(prompt, "__context__")

\* C30: across repeated cycles of do_later and complete_current_and_get_next
\* the system prompt does not grow without bound: the context region holds
\* the transcript of one cycle at most, never those of the earlier cycles as
\* well, and no update makes the text in front of the region longer.
SystemPromptDoesNotAccumulate ==
  /\ [](Occurrences(PresentedRegion, "<conversation>") <= 1)
  /\ [][ (Contains(messages[1].content, "__context__")
            /\ Contains(messages'[1].content, "__context__"))
         => Len(BeforeRegion(messages'[1].content)) <= Len(BeforeRegion(messages[1].content))
     ]_vars

\* C31: a command that begins with summarize_context or do_later is never
\* handed to the sandbox, whether it parses or not.  When it parses, the
\* operation is applied once (one region installed, or one task pushed and the
\* reward raised by one) and what it returns is asked next; when it does not,
\* the syntax correction is asked and the stack, the stored prompt and the
\* system message with its region stay as they were.
ContextCommandsNeverExecuted ==
  [][ (InLoop /\ (IsSummarizeCommand \/ IsDoLaterCommand)) =>
        /\ ~Executes
        /\ (WithinBudget /\ IsSummarizeCommand /\ ParseSummarizeContext(command).ok) =>
             /\ ContextRegion(messages'[1].content) = ParseSummarizeContext(command).summary
             /\ last_ask' = UpdateContext(messages, system_prompt,
                                          ParseSummarizeContext(command).last_n_messages,
                                          ParseSummarizeContext(command).summary).ret
             /\ messages'[Len(messages')] = Message("user", last_ask')
             /\ UNCHANGED <<deferred_tasks, llm_reward>>
        /\ (WithinBudget /\ IsSummarizeCommand /\ ~ParseSummarizeContext(command).ok) =>
             /\ last_ask' = SummarizeContextSyntaxError(command)
             /\ messages' = Append(messages, Message("user", last_ask'))
             /\ UNCHANGED <<deferred_tasks, llm_reward, system_prompt>>
        /\ (WithinBudget /\ ~IsSummarizeCommand /\ ParseDoLater(command).ok) =>
             /\ deferred_tasks' = Append(deferred_tasks, deferred_tasks'[Len(deferred_tasks')])
             /\ deferred_tasks'[Len(deferred_tasks')].task = ParseDoLater(command).deferred_task
             /\ llm_reward' = llm_reward + 1
             /\ last_ask' = ParseDoLater(command).current_task
             /\ messages'[Len(messages')] = Message("user", last_ask')
        /\ (WithinBudget /\ ~IsSummarizeCommand /\ ~ParseDoLater(command).ok) =>
             /\ last_ask' = DoLaterSyntaxError(command)
             /\ messages' = Append(messages, Message("user", last_ask'))
             /\ UNCHANGED <<deferred_tasks, llm_reward, system_prompt>>
    ]_vars

\* C31 witness: with one task on the stack the model sent a do_later that does
\* not parse; the correction is being asked, nothing was executed, the task
\* is still on the stack
MalformedDoLaterCorrected ==
  /\ pc = "ask"
  /\ llm_response.command.s = CmdDoLaterBad
  /\ last_ask = DoLaterSyntaxError(CmdDoLaterBad)
  /\ Len(deferred_tasks) = 1
  /\ exec_count = 0
  /\ last_exec = <<>>

\* C32: complete_current_and_get_next on an empty stack returns None and
\* leaves the stack, the stored system prompt and the conversation (with the
\* system message and its region) as they were; run() then returns its result.
EmptyStackLeavesGatewayUnchanged ==
  [][ (pc = "loop" /\ ~IsFalse(llm_response.task_done) /\ deferred_tasks = <<>>) =>
        /\ CompleteCurrentAndGetNext(system_prompt, messages, deferred_tasks, llm_reward).none
        /\ UNCHANGED <<deferred_tasks, system_prompt, messages, llm_reward>>
        /\ pc' = "returned"
        /\ return_value'.status = TRUE
    ]_vars

\* C32 witness: the run returned with an empty stack while the system message
\* carries a region that update_context installed and the turns after it
ReturnedWithRegionIntact ==
  /\ pc = "returned"
  /\ return_value.status = TRUE
  /\ deferred_tasks = <<>>
  /\ depth = 0
  /\ PresentedRegion = <<"S">>
  /\ Len(messages) = 3

\* C33: the iteration cap and the timeout are budgets of the whole task: in
\* one top-level run(), the recursive runs of the deferred tasks included, no
\* more than max_iterations commands are executed, and no command is started
\* once timeout seconds have passed since the top-level call began (the clock
\* of the model reads 0 at that moment).
BudgetsCoverWholeTask ==
  /\ [](pc # "idle" => executed <= max_iterations)
  /\ [][Executes => now <= timeout]_vars

\* C35: every run() eventually returns a BotRunResult, whatever the LLM
\* answers, as long as every ask and every execute returns: neither the loop
\* nor the draining of deferred tasks that defer again goes on forever.
RunEventuallyReturnsResult == <>(pc = "returned")

\* C34: in a pass of the loop the wall-clock test comes before the iteration
\* test: a pass that starts with the elapsed time above timeout and with the
\* iteration counter reaching max_iterations ends the run with the timeout
\* error, not with the max-iterations error.
TimeoutCheckedBeforeIterations ==
  [][ (InLoop /\ now - start_time > timeout /\ iteration_count + 1 >= max_iterations)
        => /\ pc' = "returned"
           /\ return_value' = FailedResult(TimeoutError(timeout))
    ]_vars

\* the corrective user turns at the end of the conversation: the turns that
\* follow the user turn of the ask() in progress
TurnsSinceAsk ==
  LET asks == {i \in 1..Len(messages) : messages[i] = Message("user", last_ask)}
  IN  IF asks = {} THEN 0
      ELSE Len(messages) - (CHOOSE i \in asks : \A j \in asks : j <= i)

\* C40: the retry budget of the validator belongs to one ask(): retries is 0
\* when an ask() starts, inside ask() it counts the responses rejected in this
\* ask() (one corrective turn each), and "Maximum retries reached" is raised
\* only after max_retries rejections in the ask() that raises, so rejections
\* of earlier asks never fail a later one.
RetryBudgetIsPerAsk ==
  /\ [][(pc # "ask" /\ pc' = "ask") => retries' = 0]_vars
  /\ [](pc = "ask" => retries = TurnsSinceAsk)
  /\ [][(pc = "ask" /\ pc' = "raised" /\ retries < MaxRetries)
         => exception' # "Exception: LLM is not responding in expected format. Maximum retries reached."]_vars

\* C40 witness: an ask() was answered after the validator had rejected
\* max_retries responses in all, spread over more than one ask()
AcceptedAfterRejectionsInEarlierAsks ==
  /\ pc = "loop"
  /\ rejected >= MaxRetries
  /\ retries > 0
  /\ retries < rejected

\* C39: a summarize_context with a negative count never reaches the
\* conversation: a pass that handles a summarize_context command either
\* applies update_context with a count n >= 0 and leaves at most n exchanges
\* (2n turns) after the system message before the next ask, or leaves the
\* conversation as it was and only appends the next user turn.
NegativeCountNeverApplied ==
  [][ (WithinBudget /\ IsSummarizeCommand) =>
        \/ /\ ParseSummarizeContext(command).ok
           /\ ParseSummarizeContext(command).last_n_messages >= 0
           /\ Len(messages') - 2 <= 2 * ParseSummarizeContext(command).last_n_messages
        \/ /\ Len(messages') = Len(messages) + 1
           /\ SubSeq(messages', 1, Len(messages)) = messages
    ]_vars

\* C36: the system prompt stored by the gateway and the system message at the
\* head of the conversation agree after every update_context, do_later and
\* complete_current_and_get_next: messages[0] is the system message and its
\* content is system_prompt.
SystemMessageIsStoredPrompt ==
  /\ messages # <<>>
  /\ messages[1] = Message("system", system_prompt)

\* C37: deferred tasks do not pass from one top-level run() to the next:
\* every top-level run() starts with an empty deferred-task stack, so a task
\* left on the stack by a run that ended on a spent budget is not drained by
\* a later run() on the same MicroBot.
RunStartsWithEmptyStack ==
  [][ (pc \in {"idle", "returned"} /\ pc' = "ask") => deferred_tasks' = <<>> ]_vars

\* C38: when the constructor of the MicroBot fails with a fatal error (wrong
\* mount type of folder_to_mount, malformed or unsupported model, no LLM
\* client, tool installation failed), no container that the constructor
\* created is left running. (No step of run() raises in SpecConstruct.)
FailedConstructionLeavesNoContainer ==
  pc = "raised" => live = {}

=============================================================================
